---- MODULE Spec2Model ----
(***************************************************************************)
(* A model of the genelet/schema package: the Value tree (Struct, Value,   *)
(* ListStruct, MapStruct, Map2Struct), the literal builders, the JSON      *)
(* schema codec, the leaf-service validator and the service stripper.      *)
(*                                                                         *)
(* Go pointers are addresses into `heap` (0 is the nil pointer); maps and  *)
(* slices are heap objects of their own, because Go maps and slices are    *)
(* references that two owners can share.                                   *)
(***************************************************************************)
EXTENDS Integers, Sequences, FiniteSets, TLC

VARIABLES heap, call

vars == <<heap, call>>

\* ------------------------------------------------------------------ bounds
MaxDepth == 2
MaxDocDepth == 2
MaxLitDepth == 1

\* --------------------------------------------------------------- alphabets
ClassNames == {"A", "B"}
ServiceNames == {"", "s1"}

EmptyMap == [k \in {} |-> 0]

RECURSIVE SetToSeq(_)
SetToSeq(S) ==
    IF S = {} THEN <<>>
    ELSE LET x == CHOOSE y \in S : TRUE IN <<x>> \o SetToSeq(S \ {x})

\* -------------------------------------------------------------------- heap
\* One record shape for every heap object:
\*   t    : the Go type of the object
\*   cn,sn: ClassName, ServiceName        (Struct)
\*   kind : the active oneof variant       (Value)
\*   ref  : the pointer the object holds   (Struct.Fields, Value.Kind.X,
\*          ListStruct.ListFields, MapStruct.MapFields, Map2Struct.Map2Fields)
\*   m    : the entries of a Go map        (Fields, MapFields, Map2Fields)
\*   l    : the elements of a Go slice     (Slice)
Node(t, cn, sn, kind, ref, m, l) ==
    [t |-> t, cn |-> cn, sn |-> sn, kind |-> kind, ref |-> ref, m |-> m, l |-> l]

Struct(cn, sn, fields) == Node("Struct", cn, sn, "", fields, EmptyMap, <<>>)
FieldsMap(m) == Node("Fields", "", "", "", 0, m, <<>>)
Value(kind, ref) == Node("Value", "", "", kind, ref, EmptyMap, <<>>)
ListStruct(slice) == Node("ListStruct", "", "", "", slice, EmptyMap, <<>>)
Slice(l) == Node("Slice", "", "", "", 0, EmptyMap, l)
MapStruct(mapfields) == Node("MapStruct", "", "", "", mapfields, EmptyMap, <<>>)
MapFieldsMap(m) == Node("MapFields", "", "", "", 0, m, <<>>)
Map2Struct(map2fields) == Node("Map2Struct", "", "", "", map2fields, EmptyMap, <<>>)
Map2FieldsMap(m) == Node("Map2Fields", "", "", "", 0, m, <<>>)

\* result of a function that allocates: the heap after the call and the
\* pointer it returns
Ret(h, r) == [h |-> h, r |-> r]

\* mutant: an object equal to the one allocated last is not allocated again
NewUnlessEqual(h, node) ==
    IF Len(h) > 0 /\ h[Len(h)] = node THEN Ret(h, Len(h)) ELSE Ret(Append(h, node), Len(h) + 1)

New(h, node) == Ret(Append(h, node), Len(h) + 1)

\* Statement order: the heap h left by one statement is complete before the
\* next statement e runs.  (TLC evaluates LET definitions and operator
\* arguments on demand; the test makes it compute h here rather than nested
\* inside the evaluation of e.)
After(h, e) == IF Len(h) >= 0 THEN e ELSE h

\* len(s.Fields): a nil map has length 0
LenFields(h, s) ==
    IF h[s].ref = 0 THEN 0 ELSE Cardinality(DOMAIN h[h[s].ref].m)

\* pointers held by the object at address a
Children(h, a) ==
    LET n == h[a]
    IN  ({n.ref} \cup {n.m[k] : k \in DOMAIN n.m} \cup {n.l[i] : i \in DOMAIN n.l}) \ {0}

RECURSIVE ReachFrom(_, _, _)
ReachFrom(h, frontier, seen) ==
    IF frontier = {} THEN seen
    ELSE LET next == UNION {Children(h, a) : a \in frontier} \ (seen \cup frontier)
         IN  ReachFrom(h, next, seen \cup frontier)

\* every object reachable from pointer a (a itself included)
Reach(h, a) == IF a = 0 THEN {} ELSE ReachFrom(h, {a}, {})

\* ------------------------------------------------------------- plain trees
\* The content of a tree without its addresses.  A tree given this way is
\* what a caller writes as a Go composite literal.
TStruct(cn, sn, fnil, f) ==
    [nil |-> FALSE, cn |-> cn, sn |-> sn, fnil |-> fnil, f |-> f]
TNilStruct == [nil |-> TRUE, cn |-> "", sn |-> "", fnil |-> TRUE, f |-> EmptyMap]
TLeaf(cn, sn) == TStruct(cn, sn, TRUE, EmptyMap)

\* kind "nil" is the nil *Value, "none" a Value whose Kind is unset;
\* pnil says that the pointer inside the oneof wrapper is nil, cnil that the
\* map or slice inside the container is nil
TValue(kind, pnil, cnil, s, l, m) ==
    [kind |-> kind, pnil |-> pnil, cnil |-> cnil, s |-> s, l |-> l, m |-> m]
TNilValue == TValue("nil", TRUE, TRUE, TNilStruct, <<>>, EmptyMap)
TNoKind == TValue("none", TRUE, TRUE, TNilStruct, <<>>, EmptyMap)
TSingle(s) == TValue("single", s.nil, TRUE, s, <<>>, EmptyMap)
TList(l) == TValue("list", FALSE, FALSE, TNilStruct, l, EmptyMap)
TMap(m) == TValue("map", FALSE, FALSE, TNilStruct, <<>>, m)
\* m maps each outer key to [pnil, cnil, m]: a MapStruct
TMapStruct(m) == [pnil |-> FALSE, cnil |-> FALSE, m |-> m]
TNilMapStruct == [pnil |-> TRUE, cnil |-> TRUE, m |-> EmptyMap]
TMap2(m2) == TValue("map2", FALSE, FALSE, TNilStruct, <<>>, m2)
TNilList == TValue("list", TRUE, TRUE, TNilStruct, <<>>, EmptyMap)
TNilSlice == TValue("list", FALSE, TRUE, TNilStruct, <<>>, EmptyMap)
TNilMap == TValue("map", TRUE, TRUE, TNilStruct, <<>>, EmptyMap)
TNilMap2 == TValue("map2", TRUE, TRUE, TNilStruct, <<>>, EmptyMap)

\* ---------------------------------------------- composite literals (caller)
\* Allocate a plain tree: what the Go composite literal &Struct{...} does.
RECURSIVE AllocStruct(_, _), AllocValue(_, _), AllocFieldsLoop(_, _, _, _),
          AllocSliceLoop(_, _, _, _), AllocMapFieldsLoop(_, _, _, _),
          AllocMapStruct(_, _), AllocMap2Loop(_, _, _, _)

AllocStruct(h, ts) ==
    IF ts.nil THEN Ret(h, 0)
    ELSE LET s == New(h, Struct(ts.cn, ts.sn, 0))
         IN  IF ts.fnil THEN s
             ELSE LET fm == New(s.h, FieldsMap(EmptyMap))
                      h1 == [fm.h EXCEPT ![s.r].ref = fm.r]
                  IN  Ret(AllocFieldsLoop(h1, fm.r, ts.f, SetToSeq(DOMAIN ts.f)), s.r)

AllocFieldsLoop(h, b, f, ks) ==
    IF ks = <<>> THEN h
    ELSE LET v == AllocValue(h, f[Head(ks)])
             h1 == [v.h EXCEPT ![b].m = @ @@ (Head(ks) :> v.r)]
         IN  After(h1, AllocFieldsLoop(h1, b, f, Tail(ks)))

AllocSliceLoop(h, b, l, i) ==
    IF i > Len(l) THEN h
    ELSE LET s == AllocStruct(h, l[i])
             h1 == [s.h EXCEPT ![b].l = Append(@, s.r)]
         IN  After(h1, AllocSliceLoop(h1, b, l, i + 1))

AllocMapFieldsLoop(h, b, m, ks) ==
    IF ks = <<>> THEN h
    ELSE LET s == AllocStruct(h, m[Head(ks)])
             h1 == [s.h EXCEPT ![b].m = @ @@ (Head(ks) :> s.r)]
         IN  After(h1, AllocMapFieldsLoop(h1, b, m, Tail(ks)))

\* tm is [pnil, cnil, m]
AllocMapStruct(h, tm) ==
    IF tm.pnil THEN Ret(h, 0)
    ELSE LET ms == New(h, MapStruct(0))
         IN  IF tm.cnil THEN ms
             ELSE LET mf == New(ms.h, MapFieldsMap(EmptyMap))
                      h1 == [mf.h EXCEPT ![ms.r].ref = mf.r]
                  IN  Ret(AllocMapFieldsLoop(h1, mf.r, tm.m, SetToSeq(DOMAIN tm.m)), ms.r)

AllocMap2Loop(h, b, m2, ks) ==
    IF ks = <<>> THEN h
    ELSE LET ms == AllocMapStruct(h, m2[Head(ks)])
             h1 == [ms.h EXCEPT ![b].m = @ @@ (Head(ks) :> ms.r)]
         IN  After(h1, AllocMap2Loop(h1, b, m2, Tail(ks)))

AllocValue(h, tv) ==
    IF tv.kind = "nil" THEN Ret(h, 0)
    ELSE LET v == New(h, Value(tv.kind, 0))
         IN CASE tv.kind = "none" -> v
              [] tv.kind = "single" ->
                    LET s == AllocStruct(v.h, tv.s)
                    IN  Ret([s.h EXCEPT ![v.r].ref = s.r], v.r)
              [] tv.kind = "list" ->
                    IF tv.pnil THEN v
                    ELSE LET ls == New(v.h, ListStruct(0))
                             h1 == [ls.h EXCEPT ![v.r].ref = ls.r]
                         IN  IF tv.cnil THEN Ret(h1, v.r)
                             ELSE LET sl == New(h1, Slice(<<>>))
                                      h2 == [sl.h EXCEPT ![ls.r].ref = sl.r]
                                  IN  Ret(AllocSliceLoop(h2, sl.r, tv.l, 1), v.r)
              [] tv.kind = "map" ->
                    LET ms == AllocMapStruct(v.h, [pnil |-> tv.pnil, cnil |-> tv.cnil, m |-> tv.m])
                    IN  Ret([ms.h EXCEPT ![v.r].ref = ms.r], v.r)
              [] tv.kind = "map2" ->
                    IF tv.pnil THEN v
                    ELSE LET m2 == New(v.h, Map2Struct(0))
                             h1 == [m2.h EXCEPT ![v.r].ref = m2.r]
                         IN  IF tv.cnil THEN Ret(h1, v.r)
                             ELSE LET mf == New(h1, Map2FieldsMap(EmptyMap))
                                      h2 == [mf.h EXCEPT ![m2.r].ref = mf.r]
                                  IN  Ret(AllocMap2Loop(h2, mf.r, tv.m, SetToSeq(DOMAIN tv.m)), v.r)

\* -------------------------------------------------- content of a heap tree
\* The plain tree that the objects reachable from a pointer spell out
\* (defined on heaps without cycles).
RECURSIVE TreeOfStruct(_, _), TreeOfValue(_, _), TreeOfMapStruct(_, _)

TreeOfStruct(h, a) ==
    IF a = 0 THEN TNilStruct
    ELSE LET n == h[a]
         IN  IF n.ref = 0 THEN TStruct(n.cn, n.sn, TRUE, EmptyMap)
             ELSE TStruct(n.cn, n.sn, FALSE,
                          [k \in DOMAIN h[n.ref].m |-> TreeOfValue(h, h[n.ref].m[k])])

TreeOfMapStruct(h, a) ==
    IF a = 0 THEN TNilMapStruct
    ELSE IF h[a].ref = 0 THEN [pnil |-> FALSE, cnil |-> TRUE, m |-> EmptyMap]
    ELSE TMapStruct([k \in DOMAIN h[h[a].ref].m |-> TreeOfStruct(h, h[h[a].ref].m[k])])

TreeOfValue(h, a) ==
    IF a = 0 THEN TNilValue
    ELSE LET n == h[a]
         IN CASE n.kind = "none" -> TNoKind
              [] n.kind = "single" -> TSingle(TreeOfStruct(h, n.ref))
              [] n.kind = "list" ->
                    IF n.ref = 0 THEN TNilList
                    ELSE IF h[n.ref].ref = 0 THEN TNilSlice
                    ELSE LET l == h[h[n.ref].ref].l
                         IN  TList([i \in DOMAIN l |-> TreeOfStruct(h, l[i])])
              [] n.kind = "map" ->
                    LET tm == TreeOfMapStruct(h, n.ref)
                    IN  TValue("map", tm.pnil, tm.cnil, TNilStruct, <<>>, tm.m)
              [] n.kind = "map2" ->
                    IF n.ref = 0 THEN TNilMap2
                    ELSE IF h[n.ref].ref = 0
                         THEN TValue("map2", FALSE, TRUE, TNilStruct, <<>>, EmptyMap)
                    ELSE LET m == h[h[n.ref].ref].m
                         IN  TMap2([k \in DOMAIN m |-> TreeOfMapStruct(h, m[k])])

\* ------------------------------------------------ validate.go: the stripper
RECURSIVE DeriveStructWithoutServices(_, _), deriveValueWithoutServices(_, _),
          deriveListStructWithoutServices(_, _), deriveMapStructWithoutServices(_, _),
          deriveMap2StructWithoutServices(_, _),
          DeriveFieldsLoop(_, _, _, _), DeriveListLoop(_, _, _, _),
          DeriveMapLoop(_, _, _, _), DeriveMap2Loop(_, _, _, _)

\* for key, value := range old.Fields { newStruct.Fields[key] = derive(value) }
DeriveFieldsLoop(h, b, src, ks) ==
    IF ks = <<>> THEN h
    ELSE LET v == deriveValueWithoutServices(h, h[src].m[Head(ks)])
             h1 == [v.h EXCEPT ![b].m = @ @@ (Head(ks) :> v.r)]
         IN  After(h1, DeriveFieldsLoop(h1, b, src, Tail(ks)))

\* the stripper with a slip: the service name is copied along
DeriveKeepsServiceName(h, old) ==
    IF old = 0 THEN Ret(h, 0)
    ELSE LET s == New(h, Struct(h[old].cn, h[old].sn, 0))
         IN  IF h[old].ref = 0 THEN s
             ELSE LET fm == New(s.h, FieldsMap(EmptyMap))
                      h1 == [fm.h EXCEPT ![s.r].ref = fm.r]
                      ks == SetToSeq(DOMAIN h[h[old].ref].m)
                  IN  Ret(DeriveFieldsLoop(h1, fm.r, h[old].ref, ks), s.r)

\* the stripper with a slip: newStruct.Fields = old.Fields (a shallow copy)
DeriveSharesFields(h, old) ==
    IF old = 0 THEN Ret(h, 0)
    ELSE New(h, Struct(h[old].cn, "", h[old].ref))

DeriveStructWithoutServices(h, old) ==
    IF old = 0 THEN Ret(h, 0)
    ELSE LET s == New(h, Struct(h[old].cn, "", 0))
         IN  IF h[old].ref = 0 THEN s
             ELSE LET fm == New(s.h, FieldsMap(EmptyMap))
                      h1 == [fm.h EXCEPT ![s.r].ref = fm.r]
                      ks == SetToSeq(DOMAIN h[h[old].ref].m)
                  IN  Ret(DeriveFieldsLoop(h1, fm.r, h[old].ref, ks), s.r)

deriveValueWithoutServices(h, old) ==
    IF old = 0 THEN Ret(h, 0)
    ELSE LET v == New(h, Value("none", 0))
             k == h[old].kind
             d == CASE k = "single" -> DeriveStructWithoutServices(v.h, h[old].ref)
                    [] k = "list" -> deriveListStructWithoutServices(v.h, h[old].ref)
                    [] k = "map" -> deriveMapStructWithoutServices(v.h, h[old].ref)
                    [] k = "map2" -> deriveMap2StructWithoutServices(v.h, h[old].ref)
                    [] OTHER -> Ret(v.h, 0)
         IN  Ret([d.h EXCEPT ![v.r] = Value(k, d.r)], v.r)

\* for i, s := range old.ListFields { newList.ListFields[i] = derive(s) }
DeriveListLoop(h, b, src, i) ==
    IF src = 0 \/ i > Len(h[src].l) THEN h
    ELSE LET s == DeriveStructWithoutServices(h, h[src].l[i])
             h1 == [s.h EXCEPT ![b].l[i] = s.r]
         IN  After(h1, DeriveListLoop(h1, b, src, i + 1))

\* the list stripper with a slip: make([]*Struct, n) followed by append
RECURSIVE DeriveListAppendLoop(_, _, _, _)
DeriveListAppendLoop(h, b, src, i) ==
    IF src = 0 \/ i > Len(h[src].l) THEN h
    ELSE LET s == DeriveStructWithoutServices(h, h[src].l[i])
             h1 == [s.h EXCEPT ![b].l = Append(@, s.r)]
         IN  After(h1, DeriveListAppendLoop(h1, b, src, i + 1))

deriveListAppends(h, old) ==
    IF old = 0 THEN Ret(h, 0)
    ELSE LET src == h[old].ref
             n == IF src = 0 THEN 0 ELSE Len(h[src].l)
             sl == New(h, Slice([i \in 1..n |-> 0]))
             ls == New(sl.h, ListStruct(sl.r))
         IN  Ret(DeriveListAppendLoop(ls.h, sl.r, src, 1), ls.r)

deriveListStructWithoutServices(h, old) ==
    IF old = 0 THEN Ret(h, 0)
    ELSE LET src == h[old].ref
             n == IF src = 0 THEN 0 ELSE Len(h[src].l)
             sl == New(h, Slice([i \in 1..n |-> 0]))
             ls == New(sl.h, ListStruct(sl.r))
         IN  Ret(DeriveListLoop(ls.h, sl.r, src, 1), ls.r)

\* for key, s := range old.MapFields { newMap.MapFields[key] = derive(s) }
DeriveMapLoop(h, b, src, ks) ==
    IF ks = <<>> THEN h
    ELSE LET s == DeriveStructWithoutServices(h, h[src].m[Head(ks)])
             h1 == [s.h EXCEPT ![b].m = @ @@ (Head(ks) :> s.r)]
         IN  After(h1, DeriveMapLoop(h1, b, src, Tail(ks)))

deriveMapStructWithoutServices(h, old) ==
    IF old = 0 THEN Ret(h, 0)
    ELSE LET src == h[old].ref
             mf == New(h, MapFieldsMap(EmptyMap))
             ms == New(mf.h, MapStruct(mf.r))
             ks == IF src = 0 THEN <<>> ELSE SetToSeq(DOMAIN h[src].m)
         IN  Ret(DeriveMapLoop(ms.h, mf.r, src, ks), ms.r)

\* for key, ms := range old.Map2Fields { newMap2.Map2Fields[key] = derive(ms) }
DeriveMap2Loop(h, b, src, ks) ==
    IF ks = <<>> THEN h
    ELSE LET ms == deriveMapStructWithoutServices(h, h[src].m[Head(ks)])
             h1 == [ms.h EXCEPT ![b].m = @ @@ (Head(ks) :> ms.r)]
         IN  After(h1, DeriveMap2Loop(h1, b, src, Tail(ks)))

deriveMap2StructWithoutServices(h, old) ==
    IF old = 0 THEN Ret(h, 0)
    ELSE LET src == h[old].ref
             mf == New(h, Map2FieldsMap(EmptyMap))
             m2 == New(mf.h, Map2Struct(mf.r))
             ks == IF src = 0 THEN <<>> ELSE SetToSeq(DOMAIN h[src].m)
         IN  Ret(DeriveMap2Loop(m2.h, mf.r, src, ks), m2.r)

\* ------------------------------------------------------- trees of a caller
\* The trees a caller hands to the stripper, up to a nesting depth: every
\* variant, nil pointers, nil and empty maps and slices, lists and maps of
\* two entries.
GenLeaf == {TStruct(cn, sn, fnil, EmptyMap) :
                cn \in ClassNames, sn \in ServiceNames, fnil \in BOOLEAN}

PairLeaves == {TLeaf("A", "s1"), TLeaf("B", ""), TNilStruct}

FixedValues ==
    {TNilValue, TNoKind, TSingle(TNilStruct), TNilList, TNilSlice, TNilMap, TNilMap2,
     TValue("map", FALSE, TRUE, TNilStruct, <<>>, EmptyMap),
     TValue("map2", FALSE, TRUE, TNilStruct, <<>>, EmptyMap),
     TList(<<>>), TMap(EmptyMap), TMap2(EmptyMap), TMap2("a" :> TNilMapStruct)}
    \cup {TList(<<s1, s2>>) : s1 \in PairLeaves, s2 \in PairLeaves}
    \cup {TMap(("a" :> s1) @@ ("*" :> s2)) : s1 \in PairLeaves, s2 \in PairLeaves}
    \cup {TMap2(("a" :> TMapStruct("b" :> s1)) @@ ("b" :> TMapStruct("a" :> s2))) :
              s1 \in PairLeaves, s2 \in PairLeaves}

RECURSIVE GenStruct(_), GenValue(_)
GenValue(d) ==
    FixedValues
    \cup {TSingle(s) : s \in GenStruct(d)}
    \cup {TList(<<s>>) : s \in GenStruct(d)}
    \cup {TMap("a" :> s) : s \in GenStruct(d)}
    \cup {TMap2("a" :> TMapStruct("b" :> s)) : s \in GenStruct(d)}

GenStruct(d) ==
    GenLeaf \cup
    IF d = 0 THEN {}
    ELSE {TStruct("A", "s1", FALSE, "a" :> v) : v \in GenValue(d - 1)}
         \cup {TStruct("B", "", FALSE, ("a" :> TSingle(TLeaf("A", "s1"))) @@ ("b" :> v)) :
                   v \in GenValue(0)}

CallerTrees ==
    {TNilStruct} \cup GenLeaf
    \cup {TStruct(cn, sn, FALSE, "a" :> v) :
              cn \in ClassNames, sn \in ServiceNames, v \in GenValue(MaxDepth - 1)}
    \cup {TStruct("B", "s1", FALSE, ("a" :> TSingle(TLeaf("A", "s1"))) @@ ("b" :> v)) :
              v \in GenValue(0)}

\* ------------------------------------------------------------- call record
\* The last call: its name, arguments, result and error, the heap before it
\* (pre) and what the caller remembered for later comparison (aux).
Call(op, cn, arg, res, err, pre, aux) ==
    [op |-> op, cn |-> cn, arg |-> arg, res |-> res, err |-> err, pre |-> pre, aux |-> aux]

\* -------------------------------------------------- SpecDerive: the stripper
InitDerive ==
    \E t \in CallerTrees :
        LET a == AllocStruct(<<>>, t)
        IN  /\ heap = a.h
            /\ call = Call("Literal", "", 0, a.r, "", <<>>, t)

\* newStruct := DeriveStructWithoutServices(oldStruct)
Derive ==
    /\ call.op = "Literal"
    /\ LET d == DeriveStructWithoutServices(heap, call.res)
       IN  /\ heap' = d.h
           /\ call' = Call("Derive", "", call.res, d.r, "", heap, call.aux)

\* DeriveStructWithoutServices applied to its own result
DeriveAgain ==
    /\ call.op = "Derive"
    /\ LET d == DeriveStructWithoutServices(heap, call.res)
       IN  /\ heap' = d.h
           /\ call' = Call("DeriveAgain", "", call.res, d.r, "", heap, call.aux)

\* A later change of one object by the caller: a field assignment, a map
\* insertion, a slice element assignment.
Poked(h, a) ==
    LET n == h[a]
    IN CASE n.t = "Struct" -> [h EXCEPT ![a].sn = "changed"]
         [] n.t = "Value" ->
                [h EXCEPT ![a] = IF n.kind = "none" THEN Value("single", 0) ELSE Value("none", 0)]
         [] n.t \in {"Fields", "MapFields", "Map2Fields"} ->
                [h EXCEPT ![a].m = ("changed" :> 0) @@ @]
         [] n.t = "Slice" -> [h EXCEPT ![a].l = [i \in DOMAIN @ |-> 0]]
         [] OTHER -> [h EXCEPT ![a].ref = 0]

\* the caller changes an object of the tree it passed in
PokeArg ==
    /\ call.op = "Derive"
    /\ \E a \in Reach(heap, call.arg) :
          /\ Poked(heap, a) # heap
          /\ heap' = Poked(heap, a)
          /\ call' = Call("PokeArg", "", call.arg, call.res, "", heap,
                          TreeOfStruct(heap, call.res))

\* the caller changes an object of the tree it got back
PokeRes ==
    /\ call.op = "Derive"
    /\ \E a \in Reach(heap, call.res) :
          /\ Poked(heap, a) # heap
          /\ heap' = Poked(heap, a)
          /\ call' = Call("PokeRes", "", call.arg, call.res, "", heap,
                          TreeOfStruct(heap, call.arg))

NextDerive == Derive \/ DeriveAgain \/ PokeArg \/ PokeRes

SpecDerive == InitDerive /\ [][NextDerive]_vars

\* ------------------------------------------------------ claims: stripper
RECURSIVE SameShapeNoService(_, _), SameShapeValue(_, _)

\* r spells out the tree t with every service name emptied
SameShapeNoService(t, r) ==
    /\ r.nil = t.nil
    /\ ~t.nil =>
          /\ r.sn = ""
          /\ r.cn = t.cn
          /\ r.fnil = t.fnil
          /\ DOMAIN r.f = DOMAIN t.f
          /\ \A k \in DOMAIN t.f : SameShapeValue(t.f[k], r.f[k])

SameShapeValue(t, r) ==
    /\ r.kind = t.kind
    /\ r.pnil = t.pnil
    /\ t.kind = "single" => SameShapeNoService(t.s, r.s)
    /\ t.kind = "list" =>
          /\ Len(r.l) = Len(t.l)
          /\ \A i \in DOMAIN t.l : SameShapeNoService(t.l[i], r.l[i])
    /\ t.kind = "map" =>
          /\ DOMAIN r.m = DOMAIN t.m
          /\ \A k \in DOMAIN t.m : SameShapeNoService(t.m[k], r.m[k])
    /\ t.kind = "map2" =>
          /\ DOMAIN r.m = DOMAIN t.m
          /\ \A o \in DOMAIN t.m :
                /\ r.m[o].pnil = t.m[o].pnil
                /\ DOMAIN r.m[o].m = DOMAIN t.m[o].m
                /\ \A k \in DOMAIN t.m[o].m : SameShapeNoService(t.m[o].m[k], r.m[o].m[k])

\* C2: the tree DeriveStructWithoutServices returns has an empty ServiceName
\* on every Struct at every depth and under every variant, and the same
\* ClassNames, Fields keys, list lengths and orders and map key sets as its
\* argument; nil yields nil and nil Fields yield nil Fields.
C2_StripKeepsShape ==
    call.op = "Derive" => SameShapeNoService(call.aux, TreeOfStruct(heap, call.res))

\* a tree with service names two levels down, under a Map2Struct and a
\* ListStruct of two elements, has been stripped
C2_Witness ==
    /\ call.op = "Derive"
    /\ call.res # 0
    /\ call.aux = TStruct("A", "s1", FALSE, "a" :> TMap2("a" :> TMapStruct("b" :>
                      TStruct("A", "s1", FALSE, "a" :> TList(<<TLeaf("A", "s1"), TLeaf("B", "")>>)))))

\* C3: stripping is idempotent: stripping the stripped tree gives a tree
\* equal to the stripped tree.
C3_StripIdempotent ==
    call.op = "DeriveAgain" =>
        TreeOfStruct(heap, call.res) = TreeOfStruct(heap, call.arg)

\* a stripped tree that holds a list of two elements has been stripped again
C3_Witness ==
    /\ call.op = "DeriveAgain"
    /\ call.aux = TStruct("B", "s1", FALSE, "a" :> TList(<<TLeaf("A", "s1"), TLeaf("B", "")>>))
    /\ call.res # 0

\* C4: DeriveStructWithoutServices changes no object of its argument, the
\* tree it returns shares no object (node, map or slice) with the argument,
\* and a later change to either tree does not show in the other.
C4_StripSharesNothing ==
    /\ call.op \in {"Derive", "DeriveAgain"} =>
          /\ SubSeq(heap, 1, Len(call.pre)) = call.pre
          /\ Reach(heap, call.res) \cap (1..Len(call.pre)) = {}
          /\ Reach(heap, call.res) \cap Reach(heap, call.arg) = {}
    /\ call.op = "PokeArg" => TreeOfStruct(heap, call.res) = call.aux
    /\ call.op = "PokeRes" => TreeOfStruct(heap, call.arg) = call.aux

\* the caller changed the Fields map of the argument after stripping it
C4_Witness ==
    /\ call.op = "PokeArg"
    /\ call.arg # 0
    /\ heap[call.arg].ref # 0
    /\ "changed" \in DOMAIN heap[heap[call.arg].ref].m
    /\ TreeOfStruct(heap, call.arg) # TreeOfStruct(call.pre, call.arg)

\* ------------------------------------------------------ json.go: documents
wrapperClassName == "__schema_wrapper__"
wrapperFieldName == "__schema_value__"
wrapperServiceName == "__schema_wrapper_service__"

\* type jsonSchema: a pointer to a jsonSchema is a sequence of length 0 (nil)
\* or 1; pnil says that the Properties map is nil; props maps each name to a
\* pointer
JsonSchema(cn, sn, x, pnil, props, items, addl) ==
    [cn |-> cn, sn |-> sn, x |-> x, pnil |-> pnil, props |-> props,
     items |-> items, addl |-> addl]

ZeroSchema == JsonSchema("", "", FALSE, TRUE, EmptyMap, <<>>, <<>>)

\* A JSON text: an object with the keys in `has`; a value of a property, of
\* items or of additionalProperties is a sequence of length 0 (null) or 1
\* (an object).  valid is FALSE for a text that is not JSON of this form.
JsonText(valid, has, cn, sn, x, props, items, addl) ==
    [valid |-> valid, has |-> has, cn |-> cn, sn |-> sn, x |-> x, props |-> props,
     items |-> items, addl |-> addl]

NotJson == JsonText(FALSE, {}, "", "", FALSE, EmptyMap, <<>>, <<>>)

RECURSIVE jsonUnmarshal(_), jsonMarshal(_)

\* json.Unmarshal(text, &jsonSchema{}): a key that is missing leaves the zero
\* value, null leaves a nil pointer or a nil map
jsonUnmarshal(t) ==
    JsonSchema(IF "className" \in t.has THEN t.cn ELSE "",
               IF "serviceName" \in t.has THEN t.sn ELSE "",
               IF "x-map2" \in t.has THEN t.x ELSE FALSE,
               "properties" \notin t.has,
               IF "properties" \in t.has
                   THEN [k \in DOMAIN t.props |->
                            IF t.props[k] = <<>> THEN <<>> ELSE <<jsonUnmarshal(t.props[k][1])>>]
                   ELSE EmptyMap,
               IF "items" \in t.has /\ t.items # <<>>
                   THEN <<jsonUnmarshal(t.items[1])>> ELSE <<>>,
               IF "additionalProperties" \in t.has /\ t.addl # <<>>
                   THEN <<jsonUnmarshal(t.addl[1])>> ELSE <<>>)

\* json.Marshal(*jsonSchema) under the omitempty tags: an empty string, false,
\* a nil pointer and an empty map are left out
jsonMarshal(js) ==
    JsonText(TRUE,
             (IF js.cn # "" THEN {"className"} ELSE {})
                \cup (IF js.sn # "" THEN {"serviceName"} ELSE {})
                \cup (IF js.x THEN {"x-map2"} ELSE {})
                \cup (IF DOMAIN js.props # {} THEN {"properties"} ELSE {})
                \cup (IF js.items # <<>> THEN {"items"} ELSE {})
                \cup (IF js.addl # <<>> THEN {"additionalProperties"} ELSE {}),
             js.cn, js.sn, js.x,
             [k \in DOMAIN js.props |->
                 IF js.props[k] = <<>> THEN <<>> ELSE <<jsonMarshal(js.props[k][1])>>],
             IF js.items = <<>> THEN <<>> ELSE <<jsonMarshal(js.items[1])>>,
             IF js.addl = <<>> THEN <<>> ELSE <<jsonMarshal(js.addl[1])>>)

\* -------------------------------------------------------- json.go: decoding
\* A decoding either fails, in one of the ways in `fail` ("error": a returned
\* error, "panic": a nil dereference), or returns the plain tree v
\* (TNilValue: the nil *Value, "absent").
Decoded(v) == [fail |-> {}, v |-> v]
Failed(how) == [fail |-> how, v |-> TNilValue]

\* a wrapper without the reserved class name
wrapValueUnnamed(v) ==
    TStruct("", wrapperServiceName, FALSE, wrapperFieldName :> v)

wrapValueAsStruct(v) ==
    IF v.kind = "nil" THEN TNilStruct
    ELSE TStruct(wrapperClassName, wrapperServiceName, FALSE, wrapperFieldName :> v)

\* unwrapValueFromStruct(s): ok and the wrapped Value
unwrapValueFromStruct(s) ==
    IF s.nil THEN [ok |-> FALSE, v |-> TNilValue]
    ELSE IF s.cn # wrapperClassName \/ s.sn # wrapperServiceName
            \/ Cardinality(DOMAIN s.f) # 1
         THEN [ok |-> FALSE, v |-> TNilValue]
    ELSE IF wrapperFieldName \notin DOMAIN s.f THEN [ok |-> FALSE, v |-> TNilValue]
    ELSE LET v == s.f[wrapperFieldName]
         IN  IF v.kind = "nil" \/ (v.kind = "single" /\ ~v.pnil)
             THEN [ok |-> FALSE, v |-> TNilValue]
             ELSE [ok |-> TRUE, v |-> v]

\* v.GetSingleStruct() != nil
HasSingleStruct(v) == v.kind = "single" /\ ~v.pnil

extractStructFromValue(v) ==
    IF HasSingleStruct(v) THEN v.s ELSE wrapValueAsStruct(v)

\* the map with a slip: the entry is keyed by the class name of the Struct
MapKeyedByClassName(targetStruct) == TMap(targetStruct.cn :> targetStruct)

\* &Value{Kind: &Value_MapStruct{MapStruct: &MapStruct{MapFields:
\*     map[string]*Struct{"*": targetStruct}}}}
WildcardMap(targetStruct) == TMap("*" :> targetStruct)

\* the list with a slip: the item type is left out
ListOfNone(itemStruct) == TList(<<>>)

\* &Value{Kind: &Value_ListStruct{ListStruct: &ListStruct{ListFields:
\*     []*Struct{itemStruct}}}}
ListOfOne(itemStruct) == TList(<<itemStruct>>)

\* the rule of convertSchemaToValue that a node takes
FirstRule(js) ==
    IF js.x THEN "x-map2"
    ELSE IF ~js.pnil THEN "properties"
    ELSE IF js.addl # <<>> THEN "additionalProperties"
    ELSE IF js.items # <<>> THEN "items"
    ELSE "leaf"

RECURSIVE convertSchemaToValue(_), PropertiesLoop(_, _, _), InnerLoop(_, _, _),
          RegionLoop(_, _, _)

\* for name, prop := range js.Properties: acc.v is `fields` so far, acc.fail
\* the failures met (the order of the range is not fixed, so any of them can
\* be the one returned)
PropertiesLoop(props, ks, acc) ==
    IF ks = <<>> THEN acc
    ELSE LET val == convertSchemaToValue(props[Head(ks)])
         IN  IF val.fail # {}
                THEN PropertiesLoop(props, Tail(ks), [acc EXCEPT !.fail = @ \cup val.fail])
             ELSE IF val.v.kind = "nil" THEN PropertiesLoop(props, Tail(ks), acc)
             ELSE PropertiesLoop(props, Tail(ks), [acc EXCEPT !.v = @ @@ (Head(ks) :> val.v)])

\* for innerKey, innerSchema := range regionSchema.Properties
InnerLoop(props, ks, acc) ==
    IF ks = <<>> THEN acc
    ELSE LET val == convertSchemaToValue(props[Head(ks)])
         IN  IF val.fail # {}
                THEN InnerLoop(props, Tail(ks), [acc EXCEPT !.fail = @ \cup val.fail])
             ELSE IF val.v.kind = "nil" THEN InnerLoop(props, Tail(ks), acc)
             ELSE InnerLoop(props, Tail(ks),
                            [acc EXCEPT !.v = @ @@ (Head(ks) :> extractStructFromValue(val.v))])

\* for regionKey, regionSchema := range js.Properties: regionSchema.Properties
\* of a nil regionSchema is a nil dereference
RegionLoop(props, ks, acc) ==
    IF ks = <<>> THEN acc
    ELSE LET region == props[Head(ks)]
         IN  IF region = <<>>
                THEN RegionLoop(props, Tail(ks), [acc EXCEPT !.fail = @ \cup {"panic"}])
             ELSE IF region[1].pnil
                THEN RegionLoop(props, Tail(ks), [acc EXCEPT !.fail = @ \cup {"error"}])
             ELSE LET inner == InnerLoop(region[1].props, SetToSeq(DOMAIN region[1].props),
                                         [fail |-> {}, v |-> EmptyMap])
                  IN  IF inner.fail # {}
                         THEN RegionLoop(props, Tail(ks), [acc EXCEPT !.fail = @ \cup inner.fail])
                      ELSE IF DOMAIN inner.v = {} THEN RegionLoop(props, Tail(ks), acc)
                      ELSE RegionLoop(props, Tail(ks),
                                      [acc EXCEPT !.v = @ @@ (Head(ks) :> TMapStruct(inner.v))])

\* the rules with items tested before additionalProperties
convertSchemaToValueItemsFirst(p) ==
    IF p = <<>> THEN Failed({"error"})
    ELSE LET js == p[1]
         IN
         IF js.x THEN
            IF js.pnil THEN Failed({"error"})
            ELSE LET map2Fields == RegionLoop(js.props, SetToSeq(DOMAIN js.props),
                                              [fail |-> {}, v |-> EmptyMap])
                 IN  IF map2Fields.fail # {} THEN Failed(map2Fields.fail)
                     ELSE IF DOMAIN map2Fields.v = {} THEN Decoded(TNilValue)
                     ELSE Decoded(TMap2(map2Fields.v))
         ELSE IF ~js.pnil THEN
            LET fields == PropertiesLoop(js.props, SetToSeq(DOMAIN js.props),
                                         [fail |-> {}, v |-> EmptyMap])
            IN  IF fields.fail # {} THEN Failed(fields.fail)
                ELSE Decoded(TSingle(TStruct(js.cn, js.sn, FALSE, fields.v)))
         ELSE IF js.items # <<>> THEN
            LET itemVal == convertSchemaToValue(js.items)
            IN  IF itemVal.fail # {} THEN itemVal
                ELSE IF itemVal.v.kind = "nil" THEN Decoded(TNilValue)
                ELSE Decoded(ListOfOne(extractStructFromValue(itemVal.v)))
         ELSE IF js.addl # <<>> THEN
            LET val == convertSchemaToValue(js.addl)
            IN  IF val.fail # {} THEN val
                ELSE IF val.v.kind = "nil" THEN Decoded(TNilValue)
                ELSE Decoded(WildcardMap(extractStructFromValue(val.v)))
         ELSE Decoded(TSingle(TLeaf(js.cn, js.sn)))

convertSchemaToValue(p) ==
    IF p = <<>> THEN Failed({"error"})
    ELSE LET js == p[1]
         IN
         IF js.x THEN
            IF js.pnil THEN Failed({"error"})
            ELSE LET map2Fields == RegionLoop(js.props, SetToSeq(DOMAIN js.props),
                                              [fail |-> {}, v |-> EmptyMap])
                 IN  IF map2Fields.fail # {} THEN Failed(map2Fields.fail)
                     ELSE IF DOMAIN map2Fields.v = {} THEN Decoded(TNilValue)
                     ELSE Decoded(TMap2(map2Fields.v))
         ELSE IF ~js.pnil THEN
            LET fields == PropertiesLoop(js.props, SetToSeq(DOMAIN js.props),
                                         [fail |-> {}, v |-> EmptyMap])
            IN  IF fields.fail # {} THEN Failed(fields.fail)
                ELSE Decoded(TSingle(TStruct(js.cn, js.sn, FALSE, fields.v)))
         ELSE IF js.addl # <<>> THEN
            LET val == convertSchemaToValue(js.addl)
            IN  IF val.fail # {} THEN val
                ELSE IF val.v.kind = "nil" THEN Decoded(TNilValue)
                ELSE Decoded(WildcardMap(extractStructFromValue(val.v)))
         ELSE IF js.items # <<>> THEN
            LET itemVal == convertSchemaToValue(js.items)
            IN  IF itemVal.fail # {} THEN itemVal
                ELSE IF itemVal.v.kind = "nil" THEN Decoded(TNilValue)
                ELSE Decoded(ListOfOne(extractStructFromValue(itemVal.v)))
         ELSE Decoded(TSingle(TLeaf(js.cn, js.sn)))

\* JSMServiceStruct with a slip: the name of the root node is kept
JSMServiceStructKeepsName(className, text) ==
    IF className = "" THEN [fail |-> {"error"}, s |-> TNilStruct]
    ELSE IF ~text.valid THEN [fail |-> {"error"}, s |-> TNilStruct]
    ELSE LET value == convertSchemaToValue(<<jsonUnmarshal(text)>>)
         IN  IF value.fail # {} THEN [fail |-> value.fail, s |-> TNilStruct]
             ELSE IF value.v.kind = "nil" THEN [fail |-> {}, s |-> TLeaf(className, "")]
             ELSE IF HasSingleStruct(value.v) THEN [fail |-> {}, s |-> value.v.s]
             ELSE [fail |-> {"error"}, s |-> TNilStruct]

\* JSMServiceStruct that takes the Struct out of a root of any kind
JSMServiceStructOfAnyRoot(className, text) ==
    IF className = "" THEN [fail |-> {"error"}, s |-> TNilStruct]
    ELSE IF ~text.valid THEN [fail |-> {"error"}, s |-> TNilStruct]
    ELSE LET value == convertSchemaToValue(<<jsonUnmarshal(text)>>)
         IN  IF value.fail # {} THEN [fail |-> value.fail, s |-> TNilStruct]
             ELSE IF value.v.kind = "nil" THEN [fail |-> {}, s |-> TLeaf(className, "")]
             ELSE [fail |-> {}, s |-> [extractStructFromValue(value.v) EXCEPT !.cn = className]]

\* JSMServiceStruct(className, jsonSchemaStr): fail as above, otherwise the
\* plain tree s of the Struct it returns
JSMServiceStruct(className, text) ==
    IF className = "" THEN [fail |-> {"error"}, s |-> TNilStruct]
    ELSE IF ~text.valid THEN [fail |-> {"error"}, s |-> TNilStruct]
    ELSE LET value == convertSchemaToValue(<<jsonUnmarshal(text)>>)
         IN  IF value.fail # {} THEN [fail |-> value.fail, s |-> TNilStruct]
             ELSE IF value.v.kind = "nil" THEN [fail |-> {}, s |-> TLeaf(className, "")]
             ELSE IF HasSingleStruct(value.v)
                  THEN [fail |-> {}, s |-> [value.v.s EXCEPT !.cn = className]]
             ELSE [fail |-> {"error"}, s |-> TNilStruct]

\* ---------------------------------------------------- documents of a caller
DocNames == {"", "A"}

\* the text of an object that writes the non-empty keys, and "properties"
\* when hp
Obj(cn, sn, x, hp, props, items, addl) ==
    JsonText(TRUE,
             (IF cn # "" THEN {"className"} ELSE {})
                \cup (IF sn # "" THEN {"serviceName"} ELSE {})
                \cup (IF x THEN {"x-map2"} ELSE {})
                \cup (IF hp THEN {"properties"} ELSE {})
                \cup (IF items # <<>> THEN {"items"} ELSE {})
                \cup (IF addl # <<>> THEN {"additionalProperties"} ELSE {}),
             cn, sn, x, props, items, addl)

LeafText(cn, sn) == Obj(cn, sn, FALSE, FALSE, EmptyMap, <<>>, <<>>)

GenLeafText ==
    {Obj(cn, sn, x, hp, EmptyMap, <<>>, <<>>) :
         cn \in DocNames, sn \in ServiceNames, x \in BOOLEAN, hp \in BOOLEAN}

\* values of a property in the documents with two properties or two regions
SmallTexts ==
    {<<>>, <<LeafText("A", "s1")>>, <<LeafText("", "")>>,
     <<Obj("", "", FALSE, FALSE, EmptyMap, <<LeafText("A", "")>>, <<>>)>>,
     <<Obj("", "", TRUE, TRUE, EmptyMap, <<>>, <<>>)>>}

\* documents that carry several of the keys the decoder tests, and x-map2
\* documents with two regions, a region without properties, a null region
FixedTexts ==
    {Obj("A", "s1", x, hp, IF hp THEN "a" :> <<LeafText("A", "")>> ELSE EmptyMap,
         items, addl) :
         x \in BOOLEAN, hp \in BOOLEAN,
         items \in {<<>>, <<LeafText("A", "s1")>>},
         addl \in {<<>>, <<LeafText("", "s1")>>}}
    \cup {Obj("object", sn, FALSE, TRUE, props, <<>>, <<>>) :
              sn \in {"", "s1"},
              props \in {EmptyMap, "a" :> <<LeafText("object", "")>>,
                         "a" :> <<Obj("object", "", FALSE, TRUE, EmptyMap, <<>>, <<>>)>>}}
    \cup {Obj("A", "", FALSE, TRUE, ("a" :> c1) @@ ("b" :> c2), <<>>, <<>>) :
              c1 \in SmallTexts, c2 \in SmallTexts}
    \cup {Obj(n[1], n[2], FALSE, FALSE, EmptyMap, <<LeafText("A", "")>>, <<>>) :
              n \in {<<"A", "">>, <<"", "s1">>}}
    \cup {Obj("", "", TRUE, TRUE,
              ("a" :> <<Obj("", "", FALSE, TRUE, ("a" :> c1) @@ ("b" :> c2), <<>>, <<>>)>>)
                 @@ ("b" :> r2), <<>>, <<>>) :
              c1 \in SmallTexts, c2 \in SmallTexts,
              r2 \in {<<>>, <<LeafText("A", "")>>,
                      <<Obj("", "", FALSE, TRUE, EmptyMap, <<>>, <<>>)>>,
                      <<Obj("", "", FALSE, TRUE, "a" :> <<LeafText("A", "s1")>>, <<>>, <<>>)>>}}

RECURSIVE GenText(_)
GenText(d) ==
    GenLeafText \cup
    IF d = 0 THEN {}
    ELSE FixedTexts
         \cup {Obj(cn, sn, FALSE, TRUE, "a" :> <<c>>, <<>>, <<>>) :
                   cn \in DocNames, sn \in ServiceNames, c \in GenText(d - 1)}
         \cup {Obj(n[1], n[2], FALSE, FALSE, EmptyMap, <<c>>, <<>>) :
                   n \in {<<"", "">>, <<"A", "s1">>}, c \in GenText(d - 1)}
         \cup {Obj(n[1], n[2], FALSE, FALSE, EmptyMap, <<>>, <<c>>) :
                   n \in {<<"", "">>, <<"A", "s1">>}, c \in GenText(d - 1)}
         \cup {Obj(n[1], n[2], TRUE, TRUE,
                   "a" :> <<Obj("", "", FALSE, TRUE, "b" :> <<c>>, <<>>, <<>>)>>, <<>>, <<>>) :
                   n \in {<<"", "">>, <<"A", "s1">>}, c \in GenText(d - 1)}

CallerTexts == {NotJson} \cup GenText(MaxDocDepth)

RootNames == {"", "R"}

\* the Struct a caller unmarshals into: a zero Struct or one with content
Receivers == {TLeaf("", ""), TStruct("B", "s1", FALSE, "a" :> TSingle(TLeaf("A", "")))}

\* ----------------------------------------------------- SpecJSM: the decoder
\* In the actions, \E x \in {e} names the result x of the call e.
InitJSM ==
    \E text \in CallerTexts :
        /\ heap = <<>>
        /\ call = Call("Document", "", 0, 0, "", <<>>, text)

\* s, err := JSMServiceStruct(className, text)
CallJSMServiceStruct ==
    /\ call.op = "Document"
    /\ \E className \in RootNames :
       \E s \in {JSMServiceStruct(className, call.aux)} :
          \/ /\ s.fail = {}
             /\ \E a \in {AllocStruct(heap, s.s)} :
                   /\ heap' = a.h
                   /\ call' = Call("JSMServiceStruct", className, 0, a.r, "", heap, call.aux)
          \/ \E how \in s.fail :
                /\ heap' = heap
                /\ call' = Call("JSMServiceStruct", className, 0, 0, how, heap, call.aux)

\* s, err := JSMStruct(className, text):
\*     s, err := JSMServiceStruct(className, text); if err != nil { return nil, err }
\*     return DeriveStructWithoutServices(s), nil
CallJSMStruct ==
    /\ call.op = "Document"
    /\ \E className \in RootNames :
       \E s \in {JSMServiceStruct(className, call.aux)} :
          \/ /\ s.fail = {}
             /\ \E a \in {AllocStruct(heap, s.s)} :
                \E d \in {DeriveStructWithoutServices(a.h, a.r)} :
                   /\ heap' = d.h
                   /\ call' = Call("JSMStruct", className, 0, d.r, "", heap, call.aux)
          \/ \E how \in s.fail :
                /\ heap' = heap
                /\ call' = Call("JSMStruct", className, 0, 0, how, heap, call.aux)

\* err := json.Unmarshal(text, &receiver), that is receiver.UnmarshalJSON(text)
\* on a receiver the caller allocated; pre is the heap with the receiver
CallUnmarshalJSON ==
    /\ \/ call.op = "Document"
       \/ call.op = "MarshalJSON" /\ call.err = ""
             /\ call.aux.op \in {"NewStruct", "NewServiceStruct"}
    /\ \E rcv \in Receivers :
       \E a \in {AllocStruct(heap, rcv)} :
       \E data \in {IF call.op = "Document" THEN call.aux ELSE call.res} :
          IF ~data.valid
          THEN /\ heap' = a.h
               /\ call' = Call("UnmarshalJSON", "", a.r, a.r, "error", a.h, data)
          ELSE \E js \in {jsonUnmarshal(data)} :
               \E val \in {convertSchemaToValue(<<js>>)} :
                  \/ \E how \in val.fail :
                        /\ heap' = a.h
                        /\ call' = Call("UnmarshalJSON", "", a.r, a.r, how, a.h, data)
                  \/ /\ val.fail = {}
                     /\ val.v.kind = "nil"
                     /\ heap' = [a.h EXCEPT ![a.r] = Struct(js.cn, js.sn, 0)]
                     /\ call' = Call("UnmarshalJSON", "", a.r, a.r, "", a.h, data)
                  \/ /\ val.fail = {}
                     /\ val.v.kind # "nil"
                     /\ \E extracted \in {AllocStruct(a.h, extractStructFromValue(val.v))} :
                        \E e \in {extracted.h[extracted.r]} :
                           /\ heap' = [extracted.h EXCEPT ![a.r] =
                                          Struct(IF js.cn # "" THEN js.cn ELSE e.cn,
                                                 IF js.sn # "" THEN js.sn ELSE e.sn,
                                                 e.ref)]
                           /\ call' = Call("UnmarshalJSON", "", a.r, a.r, "", a.h, data)

\* value, err := convertSchemaToValue(&js) on the unmarshalled document
CallConvert ==
    /\ call.op = "Document"
    /\ call.aux.valid
    /\ \E val \in {convertSchemaToValue(<<jsonUnmarshal(call.aux)>>)} :
          \/ /\ val.fail = {}
             /\ \E a \in {AllocValue(heap, val.v)} :
                   /\ heap' = a.h
                   /\ call' = Call("convertSchemaToValue", "", 0, a.r, "", heap, call.aux)
          \/ \E how \in val.fail :
                /\ heap' = heap
                /\ call' = Call("convertSchemaToValue", "", 0, 0, how, heap, call.aux)

NextJSM == CallJSMServiceStruct \/ CallJSMStruct \/ CallUnmarshalJSON \/ CallConvert

SpecJSM == InitJSM /\ [][NextJSM]_vars

\* ------------------------------------------------- claims on the decoder
\* C6: a Struct returned by JSMServiceStruct or by JSMStruct has the className
\* argument as its root ClassName, whatever the root node of the document
\* declares, also when it declares none or decodes to absent.
C6_RootNameIsArgument ==
    (call.op \in {"JSMServiceStruct", "JSMStruct"} /\ call.err = "") =>
        /\ call.res # 0
        /\ heap[call.res].cn = call.cn

\* the root node declares another name and has properties
C6_Witness ==
    /\ call.op = "JSMServiceStruct"
    /\ call.err = ""
    /\ "className" \in call.aux.has
    /\ call.aux.cn = "A"
    /\ call.cn = "R"
    /\ heap[call.res].cn = "R"
    /\ LenFields(heap, call.res) > 0

\* C7: JSMStruct fails exactly when JSMServiceStruct fails on the same
\* arguments, and otherwise returns DeriveStructWithoutServices of the tree of
\* JSMServiceStruct: the same class names and field shape at every depth,
\* every ServiceName empty.
C7_JSMStructIsStrippedService ==
    call.op = "JSMStruct" =>
        \A svc \in {JSMServiceStruct(call.cn, call.aux)} :
            /\ (call.err # "") <=> (svc.fail # {})
            /\ (call.err # "") => (call.err \in svc.fail /\ call.res = 0)
            /\ (call.err = "") =>
                  \A a \in {AllocStruct(<<>>, svc.s)} :
                  \A d \in {DeriveStructWithoutServices(a.h, a.r)} :
                  \A t \in {TreeOfStruct(heap, call.res)} :
                      /\ t = TreeOfStruct(d.h, d.r)
                      /\ SameShapeNoService(svc.s, t)

\* a document with service names on the root and on a property
C7_Witness ==
    /\ call.op = "JSMStruct"
    /\ call.err = ""
    /\ call.aux.sn = "s1"
    /\ "properties" \in call.aux.has
    /\ \E k \in DOMAIN call.aux.props :
          /\ call.aux.props[k] # <<>>
          /\ call.aux.props[k][1].sn = "s1"
          /\ LenFields(heap, call.res) > 0
    /\ heap[call.res].sn = ""

\* some node of the subtree carries a serviceName
RECURSIVE Carries(_)
Carries(js) ==
    \/ js.sn # ""
    \/ \E k \in DOMAIN js.props : js.props[k] # <<>> /\ Carries(js.props[k][1])
    \/ js.items # <<>> /\ Carries(js.items[1])
    \/ js.addl # <<>> /\ Carries(js.addl[1])

\* the Value that a Struct of a list or of a map stands for
Unwrapped(s) ==
    IF unwrapValueFromStruct(s).ok THEN unwrapValueFromStruct(s).v ELSE TSingle(s)

\* v, the element decoded from node js, holds the service name of js, and so
\* do the elements decoded from the nodes below js
RECURSIVE RetainsServices(_, _)
RetainsServices(js, v) ==
    IF v.kind = "nil" THEN ~Carries(js)
    ELSE /\ js.sn # "" => (v.kind = "single" /\ ~v.pnil /\ v.s.sn = js.sn)
         /\ CASE FirstRule(js) = "properties" /\ v.kind = "single" ->
                    \A k \in DOMAIN js.props :
                        js.props[k] # <<>> =>
                            RetainsServices(js.props[k][1],
                                            IF k \in DOMAIN v.s.f THEN v.s.f[k] ELSE TNilValue)
              [] FirstRule(js) = "additionalProperties" /\ v.kind = "map" ->
                    RetainsServices(js.addl[1], Unwrapped(v.m["*"]))
              [] FirstRule(js) = "items" /\ v.kind = "list" ->
                    RetainsServices(js.items[1], Unwrapped(v.l[1]))
              [] FirstRule(js) = "x-map2" /\ v.kind = "map2" ->
                    \A r \in DOMAIN js.props :
                        /\ js.props[r][1].sn = ""
                        /\ \A k \in DOMAIN js.props[r][1].props :
                              js.props[r][1].props[k] # <<>> =>
                                  RetainsServices(js.props[r][1].props[k][1],
                                      IF r \in DOMAIN v.m /\ k \in DOMAIN v.m[r].m
                                          THEN Unwrapped(v.m[r].m[k]) ELSE TNilValue)
              [] OTHER -> TRUE

\* C8: JSMServiceStruct retains every serviceName of the document: for each
\* node that carries a serviceName, the element of the returned tree decoded
\* from that node holds that service name.
C8_RetainsEveryServiceName ==
    (call.op = "JSMServiceStruct" /\ call.err = "") =>
        RetainsServices(jsonUnmarshal(call.aux), TSingle(TreeOfStruct(heap, call.res)))

\* C9: a node whose first rule is additionalProperties and whose value node
\* decodes to a value that is not absent decodes to a MapStruct with the one
\* key "*", mapped to the Struct decoded from the value node.
C9_WildcardKey ==
    call.op = "convertSchemaToValue" =>
        \A js \in {jsonUnmarshal(call.aux)} :
            FirstRule(js) = "additionalProperties" =>
                \A val \in {convertSchemaToValue(js.addl)} :
                    (val.fail = {} /\ val.v.kind # "nil") =>
                        /\ call.err = ""
                        /\ \A t \in {TreeOfValue(heap, call.res)} :
                              /\ t.kind = "map"
                              /\ ~t.pnil
                              /\ ~t.cnil
                              /\ DOMAIN t.m = {"*"}
                              /\ t.m["*"] = (IF HasSingleStruct(val.v) THEN val.v.s
                                             ELSE wrapValueAsStruct(val.v))

\* {"additionalProperties": {"className": "A"}} yields {"*": leaf Struct "A"}
C9_Witness ==
    /\ call.op = "convertSchemaToValue"
    /\ call.err = ""
    /\ call.aux.has = {"additionalProperties"}
    /\ call.aux.addl = <<LeafText("A", "")>>
    /\ TreeOfValue(heap, call.res).m = ("*" :> TLeaf("A", ""))

\* C10 as stated: every node whose first rule is items decodes to a
\* ListStruct with exactly one element, and {"items": {}} to a ListStruct
\* whose element is a leaf Struct with an empty ClassName.
C10_ItemsAlwaysOneElement ==
    call.op = "convertSchemaToValue" =>
        \A js \in {jsonUnmarshal(call.aux)} :
            FirstRule(js) = "items" =>
                /\ call.err = ""
                /\ \A t \in {TreeOfValue(heap, call.res)} :
                      /\ t.kind = "list"
                      /\ Len(t.l) = 1
                      /\ js.items[1] = ZeroSchema => t.l = <<TLeaf("", "")>>

\* C10: a node whose first rule is items decodes, when its item node decodes
\* to a value that is not absent, to a ListStruct with exactly one element,
\* the Struct decoded from the item node; an absent item makes the node
\* absent and a failure of the item is the failure of the node;
\* {"items": {}} decodes to a ListStruct whose element is a leaf Struct with
\* an empty ClassName.
C10_ItemsOneElementUnlessAbsent ==
    call.op = "convertSchemaToValue" =>
        \A js \in {jsonUnmarshal(call.aux)} :
            FirstRule(js) = "items" =>
                \A itemVal \in {convertSchemaToValue(js.items)} :
                \A t \in {TreeOfValue(heap, call.res)} :
                    /\ (itemVal.fail = {} /\ itemVal.v.kind # "nil") =>
                          /\ call.err = ""
                          /\ t.kind = "list"
                          /\ ~t.pnil
                          /\ Len(t.l) = 1
                          /\ t.l[1] = (IF HasSingleStruct(itemVal.v) THEN itemVal.v.s
                                       ELSE wrapValueAsStruct(itemVal.v))
                    /\ (itemVal.fail = {} /\ itemVal.v.kind = "nil") =>
                          (call.err = "" /\ call.res = 0)
                    /\ itemVal.fail # {} => call.err \in itemVal.fail
                    /\ js.items[1] = ZeroSchema =>
                          (call.err = "" /\ t.l = <<TLeaf("", "")>>)

\* {"items": {}}
C10_Witness ==
    /\ call.op = "convertSchemaToValue"
    /\ call.err = ""
    /\ call.aux.has = {"items"}
    /\ call.aux.items = <<LeafText("", "")>>
    /\ TreeOfValue(heap, call.res).l = <<TLeaf("", "")>>

\* ---------------------------------------------- builders: literals (any)
\* A Go value handed to a builder as `any`: its dynamic type ty and its
\* content, in a field named after the type.
LNil == [ty |-> "nil"]
\* a value of a type that no builder accepts (an int)
LOther == [ty |-> "other"]
LString(s) == [ty |-> "string", s |-> s]
\* [2]any{x, y}
LTuple(x, y) == [ty |-> "[2]any", pair |-> <<x, y>>]
LFields(m) == [ty |-> "map[string]any", fields |-> m]
LStrings(l) == [ty |-> "[]string", strings |-> l]
LTuples(l) == [ty |-> "[][2]any", tuples |-> l]
LStringMap(m) == [ty |-> "map[string]string", stringMap |-> m]
LTupleMap(m) == [ty |-> "map[string][2]any", tupleMap |-> m]
\* the keys of a two-key map are pairs <<first, second>>
LString2Map(m) == [ty |-> "map[[2]string]string", string2Map |-> m]
LTuple2Map(m) == [ty |-> "map[[2]string][2]any", tuple2Map |-> m]
LStringss(l) == [ty |-> "[][]string", stringss |-> l]
LStringsMap(m) == [ty |-> "map[string][]string", stringsMap |-> m]
LStrings2Map(m) == [ty |-> "map[[2]string][]string", strings2Map |-> m]
\* pre-built objects: the address of a Struct, of the slice of a []*Struct,
\* of the map of a map[string]*Struct or of a map[string]*MapStruct
LPtr(a) == [ty |-> "*Struct", ptr |-> a]
LPtrs(a) == [ty |-> "[]*Struct", slice |-> a]
LPtrMap(a) == [ty |-> "map[string]*Struct", mapFields |-> a]
LPtrMap2(a) == [ty |-> "map[string]*MapStruct", map2Fields |-> a]

\* typeSpec{className}
createTypeSpec(className) == LTuple(LString(className), LNil)

\* a key that is not valid UTF-8
BadUTF8 == "\\xff"
\* no test of the key
AnyString(k) == TRUE

\* utf8.ValidString(k)
ValidString(k) == k # BadUTF8

\* the order in which one run ranges over the keys of its maps
KeyAlphabet == <<"a", "b", "*", "", BadUTF8>>
Reversed(q) == [i \in 1..Len(q) |-> q[Len(q) + 1 - i]]
KeyOrders == {KeyAlphabet, Reversed(KeyAlphabet)}
Ordered(S, ord) ==
    SelectSeq(ord, LAMBDA k : k \in S) \o SetToSeq(S \ {ord[i] : i \in DOMAIN ord})

\* outcome of a builder: fail is "" (err == nil), "error" or "panic"; h is
\* the heap it leaves, r the pointer it returns
Built(h, r) == [fail |-> "", h |-> h, r |-> r]
\* an error together with the object built last
RefusedWithLast(h) == [fail |-> "error", h |-> h, r |-> Len(h)]
\* return nil, fmt.Errorf(...)
Refused(h) == [fail |-> "error", h |-> h, r |-> 0]
Panicked(h) == [fail |-> "panic", h |-> h, r |-> 0]
\* a builder that only allocates one object
Made(h, node) == Built(Append(h, node), Len(h) + 1)
\* return nil, err of a callee's failure
Returned(o) == [fail |-> o.fail, h |-> o.h, r |-> 0]
\* x, err := callee(); if err != nil { return nil, err }; Rest(x): o is the
\* outcome of the callee
Then(o, Rest(_)) == IF o.fail # "" THEN Returned(o) ELSE Rest(o)
\* &Value{Kind: ...} around the result of a callee
ValueAround(kind, o) == Then(o, LAMBDA x : Made(x.h, Value(kind, x.r)))

\* every entry under every outer key, whatever its first key component
GroupedSpecsAnyRegion(specs, firstKey) ==
    [secondKey \in {k[2] : k \in DOMAIN specs} |->
        specs[CHOOSE q \in DOMAIN specs : q[2] = secondKey]]

\* the entries of a two-key literal for one first key
GroupedSpecs(specs, firstKey) ==
    [secondKey \in {k[2] : k \in {q \in DOMAIN specs : q[1] = firstKey}} |->
        specs[<<firstKey, secondKey>>]]

\* ------------------------------------------------------------- builders
\* Every builder takes the heap h and the order ord in which this run ranges
\* over map keys, and gives an outcome (fail, h, r).
\* The list, map and two-key-map builders exist three times in the source,
\* once per builder of their elements (newSingleStruct, newServiceSingleStruct
\* and newEndStruct), with the same body; single names which one is used.
RECURSIVE NewStruct(_, _, _, _), NewStructLoop(_, _, _, _, _), NewValue(_, _, _),
          newSingleStruct(_, _, _), SingleOf(_, _, _, _),
          ListStructOf(_, _, _, _), ListStructLoop(_, _, _, _, _, _),
          MapStructOf(_, _, _, _), MapStructLoop(_, _, _, _, _, _),
          Map2StructOf(_, _, _, _), Map2StructLoop(_, _, _, _, _, _),
          NewServiceStruct(_, _, _, _), NewServiceStructLoop(_, _, _, _, _),
          NewServiceValue(_, _, _), BuildServiceValue(_, _, _),
          newServiceSingleStruct(_, _, _)

\* the class name alone, whatever follows it
newEndStructOfClass(h, v) ==
    IF Len(v) < 1 THEN Refused(h)
    ELSE LET s == New(h, Struct(v[1], "", 0)) IN Built(s.h, s.r)

\* mutant: the service name is the last element
newEndStructLastName(h, v) ==
    IF Len(v) < 1 THEN Refused(h)
    ELSE IF Len(v) = 1
         THEN LET s == New(h, Struct(v[1], "", 0)) IN Built(s.h, s.r)
         ELSE LET s == New(h, Struct(v[1], v[Len(v)], 0)) IN Built(s.h, s.r)

\* newEndStruct: v is the []string itself
newEndStruct(h, v) ==
    IF Len(v) < 1 THEN Refused(h)
    ELSE IF Len(v) = 1
         THEN LET s == New(h, Struct(v[1], "", 0)) IN Built(s.h, s.r)
         ELSE LET s == New(h, Struct(v[1], v[2], 0)) IN Built(s.h, s.r)

SingleOf(h, single, spec, ord) ==
    CASE single = "newSingleStruct" -> newSingleStruct(h, spec, ord)
      [] single = "newServiceSingleStruct" -> newServiceSingleStruct(h, spec, ord)
      [] single = "newEndStruct" -> newEndStruct(h, spec)

\* newListStruct, newServiceListStruct, newEndListStruct
ListStructOf(h, single, specs, ord) ==
    LET structs == New(h, Slice([i \in 1..Len(specs) |-> 0]))
    IN  Then(ListStructLoop(structs.h, single, structs.r, specs, 1, ord),
             LAMBDA lp : Made(lp.h, ListStruct(lp.r)))

ListStructLoop(h, single, b, specs, i, ord) ==
    IF i > Len(specs) THEN Built(h, b)
    ELSE Then(SingleOf(h, single, specs[i], ord),
              LAMBDA s : LET h1 == [s.h EXCEPT ![b].l[i] = s.r]
                         IN  After(h1, ListStructLoop(h1, single, b, specs, i + 1, ord)))

\* newMapStruct, newServiceMapStruct, newEndMapStruct
MapStructOf(h, single, specs, ord) ==
    LET structs == New(h, MapFieldsMap(EmptyMap))
    IN  Then(MapStructLoop(structs.h, single, structs.r, specs,
                           Ordered(DOMAIN specs, ord), ord),
             LAMBDA lp : Made(lp.h, MapStruct(lp.r)))

MapStructLoop(h, single, b, specs, ks, ord) ==
    IF ks = <<>> THEN Built(h, b)
    ELSE Then(SingleOf(h, single, specs[Head(ks)], ord),
              LAMBDA s : LET h1 == [s.h EXCEPT ![b].m = @ @@ (Head(ks) :> s.r)]
                         IN  After(h1, MapStructLoop(h1, single, b, specs, Tail(ks), ord)))

\* newMap2Struct, newServiceMap2Struct, newEndMap2Struct
Map2StructOf(h, single, specs, ord) ==
    LET map2Fields == New(h, Map2FieldsMap(EmptyMap))
    IN  Then(Map2StructLoop(map2Fields.h, single, map2Fields.r, specs,
                            Ordered({k[1] : k \in DOMAIN specs}, ord), ord),
             LAMBDA lp : Made(lp.h, Map2Struct(lp.r)))

Map2StructLoop(h, single, b, specs, ks, ord) ==
    IF ks = <<>> THEN Built(h, b)
    ELSE Then(MapStructOf(h, single, GroupedSpecs(specs, Head(ks)), ord),
              LAMBDA ms : LET h1 == [ms.h EXCEPT ![b].m = @ @@ (Head(ks) :> ms.r)]
                          IN  After(h1, Map2StructLoop(h1, single, b, specs, Tail(ks), ord)))

\* fieldSpecs is LNil when the caller gives no map (or a nil one)
NewStruct(h, className, fieldSpecs, ord) ==
    IF className = "" THEN Refused(h)
    ELSE LET structSpec == New(h, Struct(className, "", 0))
         IN  IF fieldSpecs.ty # "map[string]any" THEN Built(structSpec.h, structSpec.r)
             ELSE LET fm == New(structSpec.h, FieldsMap(EmptyMap))
                      h1 == [fm.h EXCEPT ![structSpec.r].ref = fm.r]
                  IN  Then(NewStructLoop(h1, fm.r, fieldSpecs.fields,
                                         Ordered(DOMAIN fieldSpecs.fields, ord), ord),
                           LAMBDA lp : Built(lp.h, structSpec.r))

NewStructLoop(h, b, m, ks, ord) ==
    IF ks = <<>> THEN Built(h, b)
    ELSE IF ~ValidString(Head(ks)) THEN Refused(h)
    ELSE Then(NewValue(h, m[Head(ks)], ord),
              LAMBDA fieldValue :
                  LET h1 == [fieldValue.h EXCEPT ![b].m = @ @@ (Head(ks) :> fieldValue.r)]
                  IN  After(h1, NewStructLoop(h1, b, m, Tail(ks), ord)))

newSingleStruct(h, spec, ord) ==
    IF spec.pair[1].ty # "string" THEN Refused(h)
    ELSE CASE spec.pair[2].ty = "nil" -> NewStruct(h, spec.pair[1].s, LNil, ord)
           [] spec.pair[2].ty = "string" ->
                LET s == New(h, Struct(spec.pair[1].s, spec.pair[2].s, 0)) IN Built(s.h, s.r)
           [] spec.pair[2].ty = "map[string]any" -> NewStruct(h, spec.pair[1].s, spec.pair[2], ord)
           [] OTHER -> Refused(h)

NewValue(h, v, ord) ==
    CASE v.ty = "nil" -> Refused(h)
      [] v.ty = "string" ->
            ValueAround("single", newSingleStruct(h, createTypeSpec(v.s), ord))
      [] v.ty = "[2]any" -> ValueAround("single", newSingleStruct(h, v, ord))
      [] v.ty = "[]string" ->
            ValueAround("list", ListStructOf(h, "newSingleStruct",
                [i \in 1..Len(v.strings) |-> createTypeSpec(v.strings[i])], ord))
      [] v.ty = "[][2]any" ->
            ValueAround("list", ListStructOf(h, "newSingleStruct", v.tuples, ord))
      [] v.ty = "map[string]string" ->
            ValueAround("map", MapStructOf(h, "newSingleStruct",
                [k \in DOMAIN v.stringMap |-> createTypeSpec(v.stringMap[k])], ord))
      [] v.ty = "map[string][2]any" ->
            ValueAround("map", MapStructOf(h, "newSingleStruct", v.tupleMap, ord))
      [] v.ty = "map[[2]string]string" ->
            ValueAround("map2", Map2StructOf(h, "newSingleStruct",
                [k \in DOMAIN v.string2Map |-> createTypeSpec(v.string2Map[k])], ord))
      [] v.ty = "map[[2]string][2]any" ->
            ValueAround("map2", Map2StructOf(h, "newSingleStruct", v.tuple2Map, ord))
      [] v.ty = "*Struct" -> ValueAround("single", Built(h, v.ptr))
      [] v.ty = "[]*Struct" -> ValueAround("list", Made(h, ListStruct(v.slice)))
      [] v.ty = "map[string]*Struct" ->
            ValueAround("map", Made(h, MapStruct(v.mapFields)))
      [] v.ty = "map[string]*MapStruct" ->
            ValueAround("map2", Made(h, Map2Struct(v.map2Fields)))
      [] OTHER -> Refused(h)

\* ------------------------------------------------ leaf-only validator
RECURSIVE validateServiceEndStructWithSeen(_, _, _, _),
          validateServiceEndValueWithSeen(_, _, _, _),
          ValidateValues(_, _, _, _), ValidateStructs(_, _, _, _),
          Map2Structs(_, _, _)

\* outcome of the validator: err, and the seen set it leaves
Valid(seen) == [err |-> FALSE, seen |-> seen]
Invalid(seen) == [err |-> TRUE, seen |-> seen]
\* if err := callee(); err != nil { return err }; Rest(seen)
ThenValid(r, Rest(_)) == IF r.err THEN r ELSE Rest(r.seen)

\* the entries of a Go map (0 is the nil map) in the order of this run
Entries(h, a, ord) ==
    IF a = 0 THEN <<>>
    ELSE LET ks == Ordered(DOMAIN h[a].m, ord) IN [i \in 1..Len(ks) |-> h[a].m[ks[i]]]

\* the elements of a Go slice (0 is the nil slice)
Elements(h, a) == IF a = 0 THEN <<>> ELSE h[a].l

\* the Structs the nested loops over Map2Fields and MapFields come to
Map2Structs(h, mss, ord) ==
    IF mss = <<>> THEN <<>>
    ELSE (IF Head(mss) = 0 THEN <<>> ELSE Entries(h, h[Head(mss)].ref, ord))
         \o Map2Structs(h, Tail(mss), ord)

\* mutant: a Struct with service name and fields is let through
ValidateStructAnyNode(h, s, seen, ord) ==
    IF s = 0 THEN Valid(seen)
    ELSE IF s \in seen THEN Valid(seen)
    ELSE ValidateValues(h, Entries(h, h[s].ref, ord), seen \cup {s}, ord)

validateServiceEndStructWithSeen(h, s, seen, ord) ==
    IF s = 0 THEN Valid(seen)
    ELSE IF s \in seen THEN Valid(seen)
    ELSE IF h[s].sn # "" /\ LenFields(h, s) > 0 THEN Invalid(seen \cup {s})
    ELSE ValidateValues(h, Entries(h, h[s].ref, ord), seen \cup {s}, ord)

\* mutant: the loop over s.Fields ends after its first entry
ValidateValuesFirst(h, vs, seen, ord) ==
    IF vs = <<>> THEN Valid(seen)
    ELSE validateServiceEndValueWithSeen(h, Head(vs), seen, ord)

\* for name, v := range s.Fields
ValidateValues(h, vs, seen, ord) ==
    IF vs = <<>> THEN Valid(seen)
    ELSE ThenValid(validateServiceEndValueWithSeen(h, Head(vs), seen, ord),
                   LAMBDA seen2 : ValidateValues(h, Tail(vs), seen2, ord))

\* for _, s := range ListFields / MapFields
ValidateStructs(h, ss, seen, ord) ==
    IF ss = <<>> THEN Valid(seen)
    ELSE ThenValid(validateServiceEndStructWithSeen(h, Head(ss), seen, ord),
                   LAMBDA seen2 : ValidateStructs(h, Tail(ss), seen2, ord))

validateServiceEndValueWithSeen(h, v, seen, ord) ==
    IF v = 0 THEN Valid(seen)
    ELSE CASE h[v].kind = "single" ->
                validateServiceEndStructWithSeen(h, h[v].ref, seen, ord)
           [] h[v].kind = "list" ->
                IF h[v].ref = 0 THEN Valid(seen)
                ELSE ValidateStructs(h, Elements(h, h[h[v].ref].ref), seen, ord)
           [] h[v].kind = "map" ->
                IF h[v].ref = 0 THEN Valid(seen)
                ELSE ValidateStructs(h, Entries(h, h[h[v].ref].ref, ord), seen, ord)
           [] h[v].kind = "map2" ->
                IF h[v].ref = 0 THEN Valid(seen)
                ELSE ValidateStructs(h,
                        Map2Structs(h, Entries(h, h[h[v].ref].ref, ord), ord), seen, ord)
           [] OTHER -> Valid(seen)

validateServiceEndStruct(h, s, ord) ==
    validateServiceEndStructWithSeen(h, s, {}, ord).err

validateServiceEndValue(h, v, ord) ==
    validateServiceEndValueWithSeen(h, v, {}, ord).err

\* ---------------------------------------------------- builders (service)
\* v is the outcome of building the Value
finalizeServiceValue(v, ord) ==
    IF validateServiceEndValue(v.h, v.r, ord) THEN Refused(v.h) ELSE v

\* the end of NewServiceStruct: x is the outcome of building x
finalizeServiceStruct(x, ord) ==
    IF validateServiceEndStruct(x.h, x.r, ord) THEN Refused(x.h) ELSE x

NewServiceStructLoop(h, b, t, ks, ord) ==
    IF ks = <<>> THEN Built(h, b)
    ELSE IF ~ValidString(Head(ks)) THEN Refused(h)
    ELSE Then(NewServiceValue(h, t[Head(ks)], ord),
              LAMBDA val : LET h1 == [val.h EXCEPT ![b].m = @ @@ (Head(ks) :> val.r)]
                           IN  After(h1, NewServiceStructLoop(h1, b, t, Tail(ks), ord)))

\* NewServiceStruct up to the call of the validator
BuildServiceStruct(h, className, v, ord) ==
    LET x == New(h, Struct(className, "", 0))
    IN  CASE v.ty = "nil" -> Refused(x.h)
          [] v.ty = "string" -> Built([x.h EXCEPT ![x.r].sn = v.s], x.r)
          [] v.ty = "map[string]any" ->
                LET fm == New(x.h, FieldsMap(EmptyMap))
                    h1 == [fm.h EXCEPT ![x.r].ref = fm.r]
                IN  Then(NewServiceStructLoop(h1, fm.r, v.fields,
                                              Ordered(DOMAIN v.fields, ord), ord),
                         LAMBDA lp : Built(lp.h, x.r))
          [] v.ty = "*Struct" ->
                IF v.ptr = 0 THEN Panicked(x.h)
                ELSE Built([x.h EXCEPT ![x.r].ref = x.h[v.ptr].ref,
                                       ![x.r].sn = x.h[v.ptr].sn], x.r)
          [] OTHER -> Refused(x.h)

NewServiceStruct(h, className, v, ord) ==
    Then(BuildServiceStruct(h, className, v, ord), LAMBDA x : finalizeServiceStruct(x, ord))

\* the Fields of t under a new name, without its service name
StructNamed(className, t) == Struct(className, "", t.ref)

\* &Struct{ClassName: className, Fields: t.Fields, ServiceName: t.ServiceName}
StructAround(className, t) == Struct(className, t.sn, t.ref)

newServiceSingleStruct(h, spec, ord) ==
    IF spec.pair[1].ty # "string" THEN Refused(h)
    ELSE CASE spec.pair[2].ty = "nil" ->
                LET s == New(h, Struct(spec.pair[1].s, "", 0)) IN Built(s.h, s.r)
           [] spec.pair[2].ty = "string" ->
                LET s == New(h, Struct(spec.pair[1].s, spec.pair[2].s, 0)) IN Built(s.h, s.r)
           [] spec.pair[2].ty = "map[string]any" ->
                NewServiceStruct(h, spec.pair[1].s, spec.pair[2], ord)
           [] spec.pair[2].ty = "*Struct" ->
                IF spec.pair[2].ptr = 0 THEN Panicked(h)
                ELSE LET s == New(h, StructAround(spec.pair[1].s, h[spec.pair[2].ptr]))
                     IN  Built(s.h, s.r)
           [] OTHER -> Refused(h)

\* NewServiceValue up to the call of finalizeServiceValue
BuildServiceValue(h, v, ord) ==
    CASE v.ty = "[]string" -> ValueAround("single", newEndStruct(h, v.strings))
      [] v.ty = "[][]string" -> ValueAround("list", ListStructOf(h, "newEndStruct", v.stringss, ord))
      [] v.ty = "map[string][]string" ->
            ValueAround("map", MapStructOf(h, "newEndStruct", v.stringsMap, ord))
      [] v.ty = "map[[2]string][]string" ->
            ValueAround("map2", Map2StructOf(h, "newEndStruct", v.strings2Map, ord))
      [] v.ty = "[2]any" -> ValueAround("single", newServiceSingleStruct(h, v, ord))
      [] v.ty = "[][2]any" ->
            ValueAround("list", ListStructOf(h, "newServiceSingleStruct", v.tuples, ord))
      [] v.ty = "map[string][2]any" ->
            ValueAround("map", MapStructOf(h, "newServiceSingleStruct", v.tupleMap, ord))
      [] v.ty = "map[[2]string][2]any" ->
            ValueAround("map2", Map2StructOf(h, "newServiceSingleStruct", v.tuple2Map, ord))
      [] v.ty = "*Struct" -> ValueAround("single", Built(h, v.ptr))
      [] v.ty = "[]*Struct" -> ValueAround("list", Made(h, ListStruct(v.slice)))
      [] v.ty = "map[string]*Struct" ->
            ValueAround("map", Made(h, MapStruct(v.mapFields)))
      [] v.ty = "map[string]*MapStruct" ->
            ValueAround("map2", Made(h, Map2Struct(v.map2Fields)))
      [] OTHER -> Refused(h)

NewServiceValue(h, v, ord) ==
    Then(BuildServiceValue(h, v, ord), LAMBDA v2 : finalizeServiceValue(v2, ord))

\* -------------------------------------------------------- json.go: encoding
\* The encoder reads the tree and builds a schema: it is given the plain tree
\* of the Struct.  Its outcome is fail ("" for err == nil) and the pointer js.
Encoded(js) == [fail |-> "", js |-> js]
EncodeFailed(how) == [fail |-> how, js |-> <<>>]
\* js, err := callee(); if err != nil { return nil, err }; Rest(js)
ThenEncoded(o, Rest(_)) == IF o.fail # "" THEN EncodeFailed(o.fail) ELSE Rest(o.js)

\* &jsonSchema{Items: itemJs}
ItemsSchema(itemJs) == JsonSchema("", "", FALSE, TRUE, EmptyMap, itemJs, <<>>)
\* &jsonSchema{AdditionalProperties: valJs}
AdditionalSchema(valJs) == JsonSchema("", "", FALSE, TRUE, EmptyMap, <<>>, valJs)
\* &jsonSchema{Properties: innerProps}
RegionSchema(innerProps) == JsonSchema("", "", FALSE, FALSE, innerProps, <<>>, <<>>)

RECURSIVE convertStructToSchema(_, _), convertValueToSchema(_, _),
          FieldsSchemaLoop(_, _, _, _), InnerSchemaLoop(_, _, _, _),
          RegionSchemaLoop(_, _, _, _)

\* for name, val := range s.Fields
FieldsSchemaLoop(f, ks, js, ord) ==
    IF ks = <<>> THEN Encoded(<<js>>)
    ELSE ThenEncoded(convertValueToSchema(f[Head(ks)], ord),
            LAMBDA propJs :
                FieldsSchemaLoop(f, Tail(ks),
                    IF propJs = <<>> THEN js
                    ELSE [js EXCEPT !.props = @ @@ (Head(ks) :> propJs)], ord))

convertStructToSchema(s, ord) ==
    IF s.nil THEN Encoded(<<>>)
    ELSE IF unwrapValueFromStruct(s).ok
         THEN convertValueToSchema(unwrapValueFromStruct(s).v, ord)
    ELSE IF DOMAIN s.f = {}
         THEN Encoded(<<JsonSchema(s.cn, s.sn, FALSE, TRUE, EmptyMap, <<>>, <<>>)>>)
    ELSE FieldsSchemaLoop(s.f, Ordered(DOMAIN s.f, ord),
                    JsonSchema(s.cn, s.sn, FALSE, FALSE, EmptyMap, <<>>, <<>>), ord)

\* for innerKey, innerStruct := range mapStruct.MapFields
InnerSchemaLoop(m, ks, innerProps, ord) ==
    IF ks = <<>> THEN Encoded(<<RegionSchema(innerProps)>>)
    ELSE ThenEncoded(convertStructToSchema(m[Head(ks)], ord),
            LAMBDA innerJs :
                InnerSchemaLoop(m, Tail(ks), innerProps @@ (Head(ks) :> innerJs), ord))

\* for regionName, mapStruct := range m2s.Map2Fields: mapStruct.MapFields of
\* a nil mapStruct is a nil dereference
RegionSchemaLoop(m2, ks, js, ord) ==
    IF ks = <<>> THEN Encoded(<<js>>)
    ELSE LET mapStruct == m2[Head(ks)]
         IN  IF mapStruct.pnil THEN EncodeFailed("panic")
             ELSE ThenEncoded(InnerSchemaLoop(mapStruct.m,
                                  Ordered(DOMAIN mapStruct.m, ord), EmptyMap, ord),
                    LAMBDA region :
                        RegionSchemaLoop(m2, Tail(ks),
                            [js EXCEPT !.props = @ @@ (Head(ks) :> region)], ord))

\* ls.ListFields[0]
ItemOfFirst(l) == l[1]

\* the entry of MapFields the encoder describes: "*" if there is one, else
\* the first the range comes to
TargetOf(m, ord) ==
    IF "*" \in DOMAIN m THEN m["*"] ELSE m[Head(Ordered(DOMAIN m, ord))]

\* a nil ListStruct, MapStruct or Map2Struct inside the oneof wrapper is a
\* nil dereference
convertValueToSchema(v, ord) ==
    CASE v.kind = "nil" -> Encoded(<<>>)
      [] v.kind = "single" -> convertStructToSchema(v.s, ord)
      [] v.kind = "list" ->
            IF v.pnil THEN EncodeFailed("panic")
            ELSE IF Len(v.l) = 0 THEN Encoded(<<ItemsSchema(<<ZeroSchema>>)>>)
            ELSE ThenEncoded(convertStructToSchema(ItemOfFirst(v.l), ord),
                             LAMBDA itemJs : Encoded(<<ItemsSchema(itemJs)>>))
      [] v.kind = "map" ->
            IF v.pnil THEN EncodeFailed("panic")
            ELSE IF DOMAIN v.m = {} THEN Encoded(<<AdditionalSchema(<<ZeroSchema>>)>>)
            ELSE ThenEncoded(convertStructToSchema(TargetOf(v.m, ord), ord),
                             LAMBDA valJs : Encoded(<<AdditionalSchema(valJs)>>))
      [] v.kind = "map2" ->
            IF v.pnil THEN EncodeFailed("panic")
            ELSE RegionSchemaLoop(v.m, Ordered(DOMAIN v.m, ord),
                    JsonSchema("", "", TRUE, FALSE, EmptyMap, <<>>, <<>>), ord)
      [] OTHER -> EncodeFailed("error")

\* the text null: json.Unmarshal of it leaves the zero jsonSchema
NullJson == JsonText(TRUE, {"null"}, "", "", FALSE, EmptyMap, <<>>, <<>>)

\* (s *Struct) MarshalJSON: fail, and the text in data
MarshalJSON(s, ord) ==
    LET Marshal(js) ==
            IF js.fail # "" THEN [fail |-> js.fail, data |-> NotJson]
            ELSE IF js.js = <<>> THEN [fail |-> "", data |-> NullJson]
            ELSE [fail |-> "", data |-> jsonMarshal(js.js[1])]
    IN  Marshal(convertStructToSchema(s, ord))

\* ------------------------------------------------- literals of a caller
\* Structs a caller has built by hand before it calls a builder
ViolatingStruct == TStruct("A", "s1", FALSE, "a" :> TSingle(TLeaf("B", "")))

PrebuiltStructs ==
    {TLeaf("A", "s1"),
     ViolatingStruct,
     TStruct("A", "s1", FALSE, EmptyMap),
     TStruct("A", "", FALSE, "a" :> TSingle(TLeaf("B", "s1"))),
     TStruct("A", "", FALSE, "a" :> TList(<<ViolatingStruct>>))}

PrebuiltValues ==
    UNION {{TSingle(x), TList(<<x>>), TMap("a" :> x), TMap2("a" :> TMapStruct("b" :> x))} :
              x \in PrebuiltStructs}
    \cup {TSingle(TNilStruct), TNilValue, TNilList, TNilSlice,
          TMap2("a" :> TNilMapStruct), TList(<<TNilStruct, ViolatingStruct>>)}

PrebuiltTrees ==
    PrebuiltStructs \cup {TStruct("P", "", FALSE, "a" :> v) : v \in PrebuiltValues}

\* addresses of the objects of Go type t in heap h
ObjectsOf(h, t) == {a \in DOMAIN h : h[a].t = t}

RECURSIVE Seconds(_, _), Tuples(_, _), Values(_, _), FieldSpecs(_, _)

\* the second element of a 2-tuple
Seconds(h, d) ==
    {LNil, LString("s1"), LOther}
    \cup {LPtr(a) : a \in ObjectsOf(h, "Struct") \cup {0}}
    \cup (IF d = 0 THEN {} ELSE {LFields(m) : m \in FieldSpecs(h, d - 1)})

Tuples(h, d) ==
    {LTuple(LString("A"), y) : y \in Seconds(h, d)}
    \cup {LTuple(LOther, LNil), LTuple(LString(""), LNil),
          LTuple(LString(""), LString("s1")), LTuple(LString("B"), LString(""))}

EndSpecs == {<<>>, <<"A">>, <<"A", "s1">>}

Values(h, d) ==
    Tuples(h, d)
    \cup {LNil, LOther, LString("A")}
    \cup {LStrings(e) : e \in EndSpecs \cup {<<"A", "B">>, <<"", "s1">>, <<"B", "">>,
                                            <<"A", "s1", "B">>}}
    \cup {LTuples(<<>>), LTuples(<<LTuple(LString("A"), LNil), LTuple(LString("B"), LString("s1"))>>)}
    \cup {LTuples(<<t>>) : t \in Tuples(h, d)}
    \cup {LStringMap(EmptyMap), LStringMap("a" :> "A"), LStringMap("*" :> "A"),
          LStringMap(("a" :> "A") @@ ("b" :> "B")), LStringMap(("*" :> "A") @@ ("b" :> "B"))}
    \cup {LTupleMap("a" :> t) : t \in Tuples(h, d)}
    \cup {LString2Map(EmptyMap), LString2Map(<<"a", "b">> :> "A"),
          LString2Map((<<"a", "a">> :> "A") @@ (<<"a", "b">> :> "B") @@ (<<"b", "a">> :> "A"))}
    \cup {LTuple2Map(<<"a", "b">> :> t) : t \in Tuples(h, d)}
    \cup {LTuple2Map((<<"a", "a">> :> LTuple(LString("A"), LNil))
                      @@ (<<"a", "b">> :> LTuple(LString("B"), LString("s1")))
                      @@ (<<"b", "a">> :> LTuple(LString("A"), LFields("a" :> LString("B")))))}
    \cup {LStringss(<<>>), LStringss(<<<<"A", "s1">>, <<"B">>>>), LStringss(<<<<>>>>),
          LStringss(<<<<"A", "s1", "B">>, <<"B">>>>), LStringss(<<<<"A">>, <<>>>>)}
    \cup {LStringsMap(EmptyMap), LStringsMap("a" :> <<"A", "s1">>), LStringsMap("a" :> <<>>),
          LStringsMap(("a" :> <<"A", "s1", "B">>) @@ ("b" :> <<"B">>)),
          LStringsMap(("a" :> <<"A">>) @@ ("b" :> <<>>))}
    \cup {LStrings2Map(EmptyMap), LStrings2Map(<<"a", "b">> :> <<>>),
          LStrings2Map((<<"a", "a">> :> <<"A", "s1", "B">>) @@ (<<"b", "a">> :> <<>>)),
          LStrings2Map((<<"a", "a">> :> <<"A", "s1", "B">>) @@ (<<"b", "a">> :> <<"B">>)),
          LStrings2Map((<<"a", "a">> :> <<"A", "s1">>) @@ (<<"a", "b">> :> <<"B">>)
                        @@ (<<"b", "a">> :> <<"A">>))}
    \cup {LPtr(a) : a \in ObjectsOf(h, "Struct") \cup {0}}
    \cup {LPtrs(a) : a \in ObjectsOf(h, "Slice") \cup {0}}
    \cup {LPtrMap(a) : a \in ObjectsOf(h, "MapFields") \cup {0}}
    \cup {LPtrMap2(a) : a \in ObjectsOf(h, "Map2Fields") \cup {0}}

\* maps from field name to literal
FieldSpecs(h, d) ==
    {EmptyMap, BadUTF8 :> LStrings(<<"A">>), "" :> LStrings(<<"A">>),
     ("a" :> LStrings(<<"A", "s1">>)) @@ ("b" :> LOther),
     ("a" :> LStrings(<<"A">>)) @@ (BadUTF8 :> LStrings(<<"B">>)),
     ("a" :> LString("A")) @@ ("b" :> LStrings(<<"A", "B">>)),
     ("a" :> LTuple(LString("A"), LString("s1"))) @@ ("b" :> LStringMap("a" :> "B"))}
    \cup {("a" :> LPtr(a)) @@ ("b" :> LPtr(a)) : a \in ObjectsOf(h, "Struct")}
    \cup {"a" :> v : v \in Values(h, d)}

\* what a caller gives as v to NewServiceStruct and as fieldSpecs to NewStruct
RootLiterals(h) ==
    {LNil, LOther, LString("s1"), LString("")}
    \cup {LPtr(a) : a \in ObjectsOf(h, "Struct") \cup {0}}
    \cup {LFields(m) : m \in FieldSpecs(h, MaxLitDepth)}

\* ------------------------------------------ SpecBuild: builders and codec
\* A caller that holds hand-built Structs calls one builder, may marshal the
\* Struct it got and unmarshal the text into a receiver.
InitBuild ==
    \E t \in PrebuiltTrees, ord \in KeyOrders :
    \E a \in {AllocStruct(<<>>, t)} :
        /\ heap = a.h
        /\ call = Call("Prebuilt", "", 0, a.r, "", <<>>, [v |-> LNil, ord |-> ord])

\* s, err := NewStruct(className) or NewStruct(className, fieldSpecs)
CallNewStruct ==
    /\ call.op = "Prebuilt"
    /\ \E className \in RootNames :
       \E fieldSpecs \in {LNil} \cup {LFields(m) : m \in FieldSpecs(heap, MaxLitDepth)} :
       \E o \in {NewStruct(heap, className, fieldSpecs, call.aux.ord)} :
          /\ heap' = o.h
          /\ call' = Call("NewStruct", className, 0, o.r, o.fail, heap,
                          [v |-> fieldSpecs, ord |-> call.aux.ord])

\* val, err := NewValue(v)
CallNewValue ==
    /\ call.op = "Prebuilt"
    /\ \E v \in Values(heap, MaxLitDepth) :
       \E o \in {NewValue(heap, v, call.aux.ord)} :
          /\ heap' = o.h
          /\ call' = Call("NewValue", "", 0, o.r, o.fail, heap,
                          [v |-> v, ord |-> call.aux.ord])

\* s, err := NewServiceStruct(className, v)
CallNewServiceStruct ==
    /\ call.op = "Prebuilt"
    /\ \E className \in RootNames :
       \E v \in RootLiterals(heap) :
       \E o \in {NewServiceStruct(heap, className, v, call.aux.ord)} :
          /\ heap' = o.h
          /\ call' = Call("NewServiceStruct", className, 0, o.r, o.fail, heap,
                          [v |-> v, ord |-> call.aux.ord])

\* val, err := NewServiceValue(v)
CallNewServiceValue ==
    /\ call.op = "Prebuilt"
    /\ \E v \in Values(heap, MaxLitDepth) :
       \E o \in {NewServiceValue(heap, v, call.aux.ord)} :
          /\ heap' = o.h
          /\ call' = Call("NewServiceValue", "", 0, o.r, o.fail, heap,
                          [v |-> v, ord |-> call.aux.ord])

\* data, err := s.MarshalJSON() on the Struct a builder returned; the caller
\* remembers the call that built s
CallMarshalJSON ==
    /\ call.op \in {"NewStruct", "NewServiceStruct"}
    /\ call.err = ""
    /\ \E m \in {MarshalJSON(TreeOfStruct(heap, call.res), call.aux.ord)} :
          /\ heap' = heap
          /\ call' = Call("MarshalJSON", "", call.res, m.data, m.fail, heap, call)

NextBuild ==
    \/ CallNewStruct
    \/ CallNewValue
    \/ CallNewServiceStruct
    \/ CallNewServiceValue
    \/ CallMarshalJSON
    \/ CallUnmarshalJSON

SpecBuild == InitBuild /\ [][NextBuild]_vars

\* ------------------------------------------------- claims on the builders
\* The tree a service literal describes, read off the literal alone.
RECURSIVE ServiceStructOf(_, _, _), ServiceSingleOf(_, _), ServiceValueOf(_, _)

EndStructOf(l) == IF Len(l) = 1 THEN TLeaf(l[1], "") ELSE TLeaf(l[1], l[2])

\* the tree of a Value that holds a pre-built slice or map
ContainerOf(h, kind, node) ==
    LET c == New(h, node)
        v == New(c.h, Value(kind, c.r))
    IN  TreeOfValue(v.h, v.r)

\* the Map2Struct content of a two-key literal; One(e) is the Struct of entry e
GroupedOf(specs, One(_)) ==
    [firstKey \in {k[1] : k \in DOMAIN specs} |->
        TMapStruct([secondKey \in {k[2] : k \in {q \in DOMAIN specs : q[1] = firstKey}} |->
                        One(specs[<<firstKey, secondKey>>])])]

ServiceStructOf(h, className, v) ==
    CASE v.ty = "string" -> TLeaf(className, v.s)
      [] v.ty = "map[string]any" ->
            TStruct(className, "", FALSE,
                    [k \in DOMAIN v.fields |-> ServiceValueOf(h, v.fields[k])])
      [] v.ty = "*Struct" ->
            LET t == TreeOfStruct(h, v.ptr) IN TStruct(className, t.sn, t.fnil, t.f)

ServiceSingleOf(h, spec) ==
    IF spec.pair[2].ty = "nil" THEN TLeaf(spec.pair[1].s, "")
    ELSE ServiceStructOf(h, spec.pair[1].s, spec.pair[2])

ServiceValueOf(h, v) ==
    CASE v.ty = "[]string" -> TSingle(EndStructOf(v.strings))
      [] v.ty = "[][]string" ->
            TList([i \in 1..Len(v.stringss) |-> EndStructOf(v.stringss[i])])
      [] v.ty = "map[string][]string" ->
            TMap([k \in DOMAIN v.stringsMap |-> EndStructOf(v.stringsMap[k])])
      [] v.ty = "map[[2]string][]string" ->
            TMap2(GroupedOf(v.strings2Map, EndStructOf))
      [] v.ty = "[2]any" -> TSingle(ServiceSingleOf(h, v))
      [] v.ty = "[][2]any" ->
            TList([i \in 1..Len(v.tuples) |-> ServiceSingleOf(h, v.tuples[i])])
      [] v.ty = "map[string][2]any" ->
            TMap([k \in DOMAIN v.tupleMap |-> ServiceSingleOf(h, v.tupleMap[k])])
      [] v.ty = "map[[2]string][2]any" ->
            TMap2(GroupedOf(v.tuple2Map, LAMBDA e : ServiceSingleOf(h, e)))
      [] v.ty = "*Struct" -> TSingle(TreeOfStruct(h, v.ptr))
      [] v.ty = "[]*Struct" -> ContainerOf(h, "list", ListStruct(v.slice))
      [] v.ty = "map[string]*Struct" -> ContainerOf(h, "map", MapStruct(v.mapFields))
      [] v.ty = "map[string]*MapStruct" -> ContainerOf(h, "map2", Map2Struct(v.map2Fields))

\* The literals of a recognised service-flavour shape.
RECURSIVE RecognisedStruct(_), RecognisedSingle(_), RecognisedValue(_)

RecognisedStruct(v) ==
    \/ v.ty = "string"
    \/ v.ty = "*Struct" /\ v.ptr # 0
    \/ /\ v.ty = "map[string]any"
       /\ \A k \in DOMAIN v.fields : ValidString(k) /\ RecognisedValue(v.fields[k])

RecognisedSingle(spec) ==
    /\ spec.pair[1].ty = "string"
    /\ spec.pair[2].ty = "nil" \/ RecognisedStruct(spec.pair[2])

RecognisedValue(v) ==
    CASE v.ty = "[]string" -> Len(v.strings) >= 1
      [] v.ty = "[][]string" -> \A i \in 1..Len(v.stringss) : Len(v.stringss[i]) >= 1
      [] v.ty = "map[string][]string" ->
            \A k \in DOMAIN v.stringsMap : Len(v.stringsMap[k]) >= 1
      [] v.ty = "map[[2]string][]string" ->
            \A k \in DOMAIN v.strings2Map : Len(v.strings2Map[k]) >= 1
      [] v.ty = "[2]any" -> RecognisedSingle(v)
      [] v.ty = "[][2]any" -> \A i \in 1..Len(v.tuples) : RecognisedSingle(v.tuples[i])
      [] v.ty = "map[string][2]any" ->
            \A k \in DOMAIN v.tupleMap : RecognisedSingle(v.tupleMap[k])
      [] v.ty = "map[[2]string][2]any" ->
            \A k \in DOMAIN v.tuple2Map : RecognisedSingle(v.tuple2Map[k])
      [] v.ty \in {"*Struct", "[]*Struct", "map[string]*Struct", "map[string]*MapStruct"} -> TRUE
      [] OTHER -> FALSE

\* a Struct of the tree has a service name and a non-empty Fields map
RECURSIVE ServiceOnInner(_), ServiceOnInnerValue(_)

ServiceOnInner(s) ==
    /\ ~s.nil
    /\ \/ s.sn # "" /\ DOMAIN s.f # {}
       \/ \E k \in DOMAIN s.f : ServiceOnInnerValue(s.f[k])

ServiceOnInnerValue(v) ==
    CASE v.kind = "single" -> ServiceOnInner(v.s)
      [] v.kind = "list" -> \E i \in 1..Len(v.l) : ServiceOnInner(v.l[i])
      [] v.kind = "map" -> \E k \in DOMAIN v.m : ServiceOnInner(v.m[k])
      [] v.kind = "map2" ->
            \E o \in DOMAIN v.m : \E k \in DOMAIN v.m[o].m : ServiceOnInner(v.m[o].m[k])
      [] OTHER -> FALSE

\* every Struct reachable from pointer a is a leaf or has no service name
LeafOnly(h, a) ==
    \A x \in Reach(h, a) : h[x].t = "Struct" => h[x].sn = "" \/ LenFields(h, x) = 0

\* C1: for a literal of a recognised service shape, NewServiceStruct and
\* NewServiceValue return an error exactly when the tree the literal
\* describes has a Struct with a service name and a non-empty Fields map;
\* a tree returned without error is the described tree and carries service
\* names on leaf Structs only.
C1_ErrorIffServiceOnInner ==
    /\ (call.op = "NewServiceStruct" /\ RecognisedStruct(call.aux.v)) =>
          \A w \in {ServiceStructOf(call.pre, call.cn, call.aux.v)} :
             /\ call.err \in {"", "error"}
             /\ call.err = "error" <=> ServiceOnInner(w)
             /\ call.err = "" =>
                   TreeOfStruct(heap, call.res) = w /\ LeafOnly(heap, call.res)
    /\ (call.op = "NewServiceValue" /\ RecognisedValue(call.aux.v)) =>
          \A w \in {ServiceValueOf(call.pre, call.aux.v)} :
             /\ call.err \in {"", "error"}
             /\ call.err = "error" <=> ServiceOnInnerValue(w)
             /\ call.err = "" =>
                   TreeOfValue(heap, call.res) = w /\ LeafOnly(heap, call.res)

\* a literal whose only offending Struct sits inside a pre-built two-level
\* map is refused
C1_Witness ==
    /\ call.op = "NewServiceStruct"
    /\ call.err = "error"
    /\ RecognisedStruct(call.aux.v)
    /\ call.aux.v.ty = "map[string]any"
    /\ \E k \in DOMAIN call.aux.v.fields :
          /\ call.aux.v.fields[k].ty = "map[string]*MapStruct"
          /\ call.aux.v.fields[k].map2Fields # 0

\* ----------------------------------------------------- claims on the codec
\* The tree has no nil Struct, no nil or unset Value, no nil container.
RECURSIVE NoAbsent(_), NoAbsentValue(_)

NoAbsent(s) ==
    ~s.nil /\ \A k \in DOMAIN s.f : NoAbsentValue(s.f[k])

NoAbsentValue(v) ==
    CASE v.kind = "single" -> NoAbsent(v.s)
      [] v.kind = "list" -> ~v.pnil /\ ~v.cnil /\ \A i \in 1..Len(v.l) : NoAbsent(v.l[i])
      [] v.kind = "map" -> ~v.pnil /\ ~v.cnil /\ \A k \in DOMAIN v.m : NoAbsent(v.m[k])
      [] v.kind = "map2" ->
            /\ ~v.pnil /\ ~v.cnil
            /\ \A o \in DOMAIN v.m :
                  /\ ~v.m[o].pnil /\ ~v.m[o].cnil
                  /\ \A k \in DOMAIN v.m[o].m : NoAbsent(v.m[o].m[k])
      [] OTHER -> FALSE

\* r is t in ClassName, ServiceName and Fields at every depth, except that a
\* MapStruct with keys other than "*" may have become a MapStruct with the
\* single key "*" that holds one of its entries
RECURSIVE SameButWildcard(_, _), SameButWildcardValue(_, _)

SameButWildcard(t, r) ==
    /\ t.nil = r.nil
    /\ t.cn = r.cn
    /\ t.sn = r.sn
    /\ DOMAIN t.f = DOMAIN r.f
    /\ \A k \in DOMAIN t.f : SameButWildcardValue(t.f[k], r.f[k])

SameButWildcardValue(t, r) ==
    /\ t.kind = r.kind
    /\ CASE t.kind = "single" -> SameButWildcard(t.s, r.s)
         [] t.kind = "list" ->
               /\ Len(t.l) = Len(r.l)
               /\ \A i \in 1..Len(t.l) : SameButWildcard(t.l[i], r.l[i])
         [] t.kind = "map" ->
               \/ /\ DOMAIN t.m = DOMAIN r.m
                  /\ \A k \in DOMAIN t.m : SameButWildcard(t.m[k], r.m[k])
               \/ /\ DOMAIN t.m # {"*"}
                  /\ DOMAIN r.m = {"*"}
                  /\ \E k \in DOMAIN t.m : SameButWildcard(t.m[k], r.m["*"])
         [] t.kind = "map2" ->
               /\ DOMAIN t.m = DOMAIN r.m
               /\ \A o \in DOMAIN t.m :
                     /\ DOMAIN t.m[o].m = DOMAIN r.m[o].m
                     /\ \A k \in DOMAIN t.m[o].m :
                           SameButWildcard(t.m[o].m[k], r.m[o].m[k])
         [] OTHER -> TRUE

\* C5: a tree built by NewStruct without absent sub-values, marshalled and
\* unmarshalled, comes back without error and the same in ClassName,
\* ServiceName and Fields at every depth, up to the wildcard key of a
\* MapStruct.
C5_RoundTrip ==
    [][(/\ call.op = "MarshalJSON"
        /\ call.aux.op = "NewStruct"
        /\ NoAbsent(TreeOfStruct(heap, call.arg))
        /\ call'.op = "UnmarshalJSON")
       => /\ call'.err = ""
          /\ SameButWildcard(TreeOfStruct(heap, call.arg), TreeOfStruct(heap', call'.res))]_vars

\* -------------------------------------------------------- two-key literals
\* the entries of a two-key literal, each as the literal of one Struct
Map2Literal(v) ==
    IF v.ty = "map[[2]string]string"
    THEN [k \in DOMAIN v.string2Map |-> LString(v.string2Map[k])]
    ELSE v.tuple2Map

\* the Structs held by the Map2Struct of the Value at a, by address
Map2Addresses(h, a) ==
    LET outer == h[h[h[a].ref].ref].m
    IN  UNION {{<<o, k, h[h[outer[o]].ref].m[k]>> : k \in DOMAIN h[h[outer[o]].ref].m} :
                  o \in DOMAIN outer}

\* C11: for a two-key literal given to NewValue, the outer keys of the
\* Map2Struct returned are exactly the first key components, the keys of the
\* MapStruct under outer key o are exactly the second components k with
\* (o, k) in the literal, and the Struct under (o, k) is the Struct built
\* from the entry (o, k): no entry is lost, duplicated or moved.
C11_Map2Grouping ==
    (/\ call.op = "NewValue"
     /\ call.aux.v.ty \in {"map[[2]string]string", "map[[2]string][2]any"}
     /\ call.err = "")
    => \A lit \in {Map2Literal(call.aux.v)} :
       \A w \in {TreeOfValue(heap, call.res)} :
          /\ w.kind = "map2" /\ ~w.pnil /\ ~w.cnil
          /\ DOMAIN w.m = {k[1] : k \in DOMAIN lit}
          /\ \A o \in DOMAIN w.m :
                /\ ~w.m[o].pnil /\ ~w.m[o].cnil
                /\ DOMAIN w.m[o].m = {k[2] : k \in {q \in DOMAIN lit : q[1] = o}}
                /\ \A k \in DOMAIN w.m[o].m :
                   \A one \in {NewValue(call.pre, lit[<<o, k>>], call.aux.ord)} :
                      /\ one.fail = ""
                      /\ TSingle(w.m[o].m[k]) = TreeOfValue(one.h, one.r)
          /\ Cardinality({e[3] : e \in {x \in Map2Addresses(heap, call.res) :
                                          <<x[1], x[2]>> \in DOMAIN lit}})
                = Cardinality(DOMAIN lit)

\* NewValue has grouped a literal with two entries under one outer key and
\* one under another
C11_Witness ==
    /\ call.op = "NewValue"
    /\ call.err = ""
    /\ call.aux.v.ty = "map[[2]string][2]any"
    /\ DOMAIN call.aux.v.tuple2Map = {<<"a", "a">>, <<"a", "b">>, <<"b", "a">>}

\* ------------------------------------------------------- the end shorthand
\* v names a class and a service: []string{c, s} or [2]any{c, s}
IsEndPair(v) ==
    \/ v.ty = "[]string" /\ Len(v.strings) = 2
    \/ v.ty = "[2]any" /\ v.pair[1].ty = "string" /\ v.pair[2].ty = "string"

EndPairOf(v) ==
    IF v.ty = "[]string" THEN v.strings ELSE <<v.pair[1].s, v.pair[2].s>>

\* C12: for every class name c and service name s, NewServiceValue of
\* []string{c, s} and NewServiceValue of [2]any{c, s} both succeed and return
\* the same SingleStruct: ClassName c, ServiceName s, no fields.
C12_EndShorthandEquivalence ==
    (call.op = "NewServiceValue" /\ IsEndPair(call.aux.v))
    => \A cs \in {EndPairOf(call.aux.v)} :
       \A short \in {NewServiceValue(call.pre, LStrings(cs), call.aux.ord)} :
       \A long \in {NewServiceValue(call.pre, LTuple(LString(cs[1]), LString(cs[2])),
                                     call.aux.ord)} :
          /\ call.err = "" /\ short.fail = "" /\ long.fail = ""
          /\ TreeOfValue(short.h, short.r) = TSingle(TLeaf(cs[1], cs[2]))
          /\ TreeOfValue(long.h, long.r) = TSingle(TLeaf(cs[1], cs[2]))
          /\ TreeOfValue(heap, call.res) = TSingle(TLeaf(cs[1], cs[2]))

\* NewServiceValue has returned for the shorthand of a class and a service
C12_Witness ==
    /\ call.op = "NewServiceValue"
    /\ call.aux.v = LStrings(<<"A", "s1">>)
    /\ call.err = ""
    /\ TreeOfValue(heap, call.res) = TSingle(TLeaf("A", "s1"))

\* ------------------------------------------------- the root class name
\* C13: NewStruct, NewServiceStruct, JSMServiceStruct and JSMStruct return
\* an error, and no Struct, when the class name argument is the empty string.
C13_EmptyClassNameRejected ==
    (/\ call.op \in {"NewStruct", "NewServiceStruct", "JSMServiceStruct", "JSMStruct"}
     /\ call.cn = "")
    => call.err = "error" /\ call.res = 0

\* ------------------------------------------------------------ field keys
\* the root call before the leaf-only validation, from the heap h
RootBuild(h, op, className, fieldSpecs, ord) ==
    IF op = "NewStruct" THEN NewStruct(h, className, fieldSpecs, ord)
    ELSE BuildServiceStruct(h, className, fieldSpecs, ord)

\* the fields that this run ranges over before it meets the key k
FieldsBefore(fields, k, ord) ==
    LET ks == Ordered(DOMAIN fields, ord)
        i == CHOOSE j \in 1..Len(ks) : ks[j] = k
    IN  [q \in {ks[j] : j \in 1..(i - 1)} |-> fields[q]]

\* C14 as stated: NewStruct and NewServiceStruct return an error when a
\* field key is empty or is not validly encoded text.
C14_EmptyOrInvalidKeyRejected ==
    (/\ call.op \in {"NewStruct", "NewServiceStruct"}
     /\ call.aux.v.ty = "map[string]any"
     /\ \E k \in DOMAIN call.aux.v.fields : k = "" \/ k = BadUTF8)
    => call.err = "error"

\* C14, amended: NewStruct and NewServiceStruct return an error, and no
\* Struct, when a field key is not valid UTF-8; when the fields met before
\* that key build without failure, the call stops at the key with nothing
\* built for it (the heap is the one the earlier fields left).  On success
\* the Struct has exactly the keys of the literal, the empty key included.
C14_InvalidKeyRejected ==
    (/\ call.op \in {"NewStruct", "NewServiceStruct"}
     /\ call.aux.v.ty = "map[string]any")
    => /\ BadUTF8 \in DOMAIN call.aux.v.fields =>
            \A before \in {RootBuild(call.pre, call.op, call.cn,
                                      LFields(FieldsBefore(call.aux.v.fields, BadUTF8,
                                                           call.aux.ord)),
                                      call.aux.ord)} :
               /\ call.res = 0
               /\ IF before.fail # "" THEN call.err = before.fail
                  ELSE call.err = "error" /\ heap = before.h
       /\ call.err = "" =>
            /\ BadUTF8 \notin DOMAIN call.aux.v.fields
            /\ DOMAIN TreeOfStruct(heap, call.res).f = DOMAIN call.aux.v.fields

\* a call has built the value of field a and then met the invalid key
C14_Witness ==
    /\ call.op \in {"NewStruct", "NewServiceStruct"}
    /\ call.aux.v.ty = "map[string]any"
    /\ DOMAIN call.aux.v.fields = {"a", BadUTF8}
    /\ call.aux.ord[1] = "a"
    /\ call.err = "error"
    /\ \E x \in DOMAIN heap : x \notin DOMAIN call.pre /\ heap[x].t = "Value"

\* a call has returned a Struct whose Fields have the empty key
C14_EmptyKeyAccepted ==
    /\ call.op \in {"NewStruct", "NewServiceStruct"}
    /\ call.err = ""
    /\ call.aux.v.ty = "map[string]any"
    /\ "" \in DOMAIN TreeOfStruct(heap, call.res).f

\* ------------------------------------------- a pre-built Struct in a tuple
\* v is [2]any{name, X} with X a pre-built Struct
IsPrebuiltPair(v) ==
    /\ v.ty = "[2]any"
    /\ v.pair[1].ty = "string"
    /\ v.pair[2].ty = "*Struct"
    /\ v.pair[2].ptr # 0

\* the Struct named name with the Fields and the ServiceName of X
RenamedOf(h, v) ==
    LET x == TreeOfStruct(h, v.pair[2].ptr)
    IN  TStruct(v.pair[1].s, x.sn, x.fnil, x.f)

\* C15 as stated: NewValue and NewServiceValue accept [2]any{name, X} with X
\* a pre-built Struct and return the SingleStruct with ClassName name and
\* the Fields and ServiceName of X.
C15_PrebuiltAcceptedInBothFlavours ==
    (call.op \in {"NewValue", "NewServiceValue"} /\ IsPrebuiltPair(call.aux.v))
    => /\ call.err = ""
       /\ TreeOfValue(heap, call.res) = TSingle(RenamedOf(call.pre, call.aux.v))

\* C15, amended: NewValue returns an error, and no Value, for [2]any{name, X}
\* with X a pre-built Struct.  NewServiceValue returns the SingleStruct with
\* ClassName name, the ServiceName of X and the Fields map of X itself,
\* unless that Struct breaks the leaf-only rule, and then it returns an error.
C15_PrebuiltAcceptedInServiceFlavour ==
    (call.op \in {"NewValue", "NewServiceValue"} /\ IsPrebuiltPair(call.aux.v))
    => \A want \in {RenamedOf(call.pre, call.aux.v)} :
          IF call.op = "NewValue" \/ ServiceOnInner(want)
          THEN call.err = "error" /\ call.res = 0
          ELSE /\ call.err = ""
               /\ TreeOfValue(heap, call.res) = TSingle(want)
               /\ heap[heap[call.res].ref].ref = call.pre[call.aux.v.pair[2].ptr].ref

\* NewServiceValue has wrapped a pre-built Struct that has a service name
C15_Witness ==
    /\ call.op = "NewServiceValue"
    /\ IsPrebuiltPair(call.aux.v)
    /\ call.err = ""
    /\ call.pre[call.aux.v.pair[2].ptr].sn # ""
    /\ call.pre[call.aux.v.pair[2].ptr].cn # call.aux.v.pair[1].s

\* NewServiceValue has wrapped a pre-built Struct that has fields
C15_WitnessFields ==
    /\ call.op = "NewServiceValue"
    /\ IsPrebuiltPair(call.aux.v)
    /\ call.err = ""
    /\ DOMAIN TreeOfValue(heap, call.res).s.f # {}

C16_WitnessList ==
    /\ call.op = "JSMServiceStruct"
    /\ call.cn = "R"
    /\ call.err = "error"
    /\ call.aux.valid
    /\ \A val \in {convertSchemaToValue(<<jsonUnmarshal(call.aux)>>)} :
          val.fail = {} /\ val.v.kind = "list"

C16_WitnessMap ==
    /\ call.op = "JSMServiceStruct"
    /\ call.cn = "R"
    /\ call.err = "error"
    /\ call.aux.valid
    /\ \A val \in {convertSchemaToValue(<<jsonUnmarshal(call.aux)>>)} :
          val.fail = {} /\ val.v.kind = "map"

\* ------------------------------------ SpecEntryPoints: every entry point
\* A caller either holds hand-built Structs and calls a builder, or holds a
\* document and calls a parser.
InitEntryPoints == InitBuild \/ InitJSM

NextEntryPoints ==
    \/ CallNewStruct
    \/ CallNewValue
    \/ CallNewServiceStruct
    \/ CallNewServiceValue
    \/ CallMarshalJSON
    \/ CallUnmarshalJSON
    \/ CallJSMServiceStruct
    \/ CallJSMStruct
    \/ CallConvert

SpecEntryPoints == InitEntryPoints /\ [][NextEntryPoints]_vars

\* C17: a builder or parser entry point that fails returns a nil Struct or
\* Value with its error, at whatever depth the failure occurred, and leaves
\* every object the caller held as it was; a failing UnmarshalJSON leaves
\* the receiver's ClassName, ServiceName and Fields as they were before the
\* call.
C17_NoPartialResult ==
    /\ (/\ call.op \in {"NewStruct", "NewValue", "NewServiceStruct", "NewServiceValue",
                         "JSMServiceStruct", "JSMStruct", "convertSchemaToValue"}
        /\ call.err # "")
       => /\ call.res = 0
          /\ \A a \in DOMAIN call.pre : heap[a] = call.pre[a]
    /\ (call.op = "UnmarshalJSON" /\ call.err # "")
       => /\ heap[call.arg] = call.pre[call.arg]
          /\ TreeOfStruct(heap, call.arg) = TreeOfStruct(call.pre, call.arg)

\* NewStruct has failed below the root after building other objects
C17_Witness ==
    /\ call.op = "NewStruct"
    /\ call.cn # ""
    /\ call.err = "error"
    /\ call.res = 0
    /\ \E x \in DOMAIN heap : x \notin DOMAIN call.pre /\ heap[x].t = "Value"

\* UnmarshalJSON has failed on a receiver that had a name and fields
C17_WitnessReceiver ==
    /\ call.op = "UnmarshalJSON"
    /\ call.err = "error"
    /\ TreeOfStruct(heap, call.arg) = TStruct("B", "s1", FALSE, "a" :> TSingle(TLeaf("A", "")))

\* ------------------------------------------- validate.go: ValidateStruct
\* A Go type is the sequence of its kinds from the outside in: <<"ptr",
\* "struct">> is *T for a struct type T.  obj is what the caller passes as
\* `any`: the nil interface, or a value of a type; fields gives the type of
\* each field of the struct type at the base of it.
Kind(t) == t[1]
Elem(t) == Tail(t)
NilObject == [nil |-> TRUE, type |-> <<>>, fields |-> EmptyMap]
Object(type, fields) == [nil |-> FALSE, type |-> type, fields |-> fields]

\* []rune(field.Name)[0] of the field names in use
FirstRune(name) == (("A" :> "A") @@ ("B" :> "B") @@ ("aB" :> "a"))[name]
IsUpper(r) == r \in {"A", "B"}

\* the kind of the field as it is, without looking through a pointer
validateFieldTypeOfKind(h, field, value) ==
    IF value = 0 THEN FALSE
    ELSE LET kind == Kind(field)
         IN  CASE h[value].kind = "map2" /\ h[value].ref # 0 -> kind # "map"
               [] h[value].kind = "map" /\ h[value].ref # 0 -> kind # "map"
               [] h[value].kind = "list" /\ h[value].ref # 0 ->
                     kind \notin {"slice", "array", "map"}
               [] h[value].kind = "single" /\ h[value].ref # 0 ->
                     kind \notin {"struct", "ptr", "interface"}
               [] OTHER -> FALSE

\* validateFieldType(field, value) != nil; field is field.Type
validateFieldType(h, field, value) ==
    IF value = 0 THEN FALSE
    ELSE LET kind == IF Kind(field) = "ptr" THEN Kind(Elem(field)) ELSE Kind(field)
         IN  CASE h[value].kind = "map2" /\ h[value].ref # 0 -> kind # "map"
               [] h[value].kind = "map" /\ h[value].ref # 0 -> kind # "map"
               [] h[value].kind = "list" /\ h[value].ref # 0 ->
                     kind \notin {"slice", "array", "map"}
               [] h[value].kind = "single" /\ h[value].ref # 0 ->
                     kind \notin {"struct", "ptr", "interface"}
               [] OTHER -> FALSE

\* for name, value := range spec.GetFields()
RECURSIVE ValidateFieldsLoop(_, _, _, _)
ValidateFieldsLoop(h, structFields, fields, ks) ==
    IF ks = <<>> THEN FALSE
    ELSE IF Head(ks) \notin DOMAIN structFields THEN TRUE
    ELSE IF validateFieldType(h, structFields[Head(ks)], fields[Head(ks)]) THEN TRUE
    ELSE ValidateFieldsLoop(h, structFields, fields, Tail(ks))

\* ValidateStruct(obj, spec) != nil
ValidateStruct(h, obj, spec, ord) ==
    IF spec = 0 \/ LenFields(h, spec) = 0 THEN FALSE
    ELSE IF obj.nil THEN TRUE
    ELSE LET t == IF Kind(obj.type) = "ptr" THEN Elem(obj.type) ELSE obj.type
         IN  IF Kind(t) # "struct" THEN TRUE
             ELSE LET structFields ==
                          [name \in {n \in DOMAIN obj.fields : IsUpper(FirstRune(n))} |->
                              obj.fields[name]]
                      fields == h[h[spec].ref].m
                  IN  ValidateFieldsLoop(h, structFields, fields, Ordered(DOMAIN fields, ord))

\* ------------------------------------------- SpecValidate: ValidateStruct
\* types of the fields of the structs a caller validates
FieldTypes ==
    {<<"map">>, <<"slice">>, <<"array">>, <<"struct">>, <<"interface">>, <<"int">>,
     <<"ptr", "map">>, <<"ptr", "slice">>, <<"ptr", "struct">>, <<"ptr", "int">>,
     <<"ptr", "ptr", "struct">>}

\* a map with the keys for which choice is not <<>>
Chosen(choice) == [k \in {q \in DOMAIN choice : choice[q] # <<>>} |-> choice[k][1]]

\* struct types with field A, and possibly B and the unexported aB
StructTypes ==
    {Chosen(("A" :> <<a>>) @@ ("B" :> b) @@ ("aB" :> u)) :
        a \in FieldTypes, b \in {<<>>, <<<<"struct">>>>, <<<<"int">>>>},
        u \in {<<>>, <<<<"map">>>>}}

Objects ==
    {NilObject, Object(<<"int">>, EmptyMap), Object(<<"ptr", "int">>, EmptyMap),
     Object(<<"map">>, EmptyMap), Object(<<"interface">>, EmptyMap)}
    \cup {Object(p \o <<"struct">>, f) :
              p \in {<<>>, <<"ptr">>, <<"ptr", "ptr">>}, f \in StructTypes}

\* Values of a field of the spec: nil, without Kind, of each variant, of
\* each variant with a nil pointer in it, and one with fields of its own
SpecValues ==
    {TNilValue, TNoKind, TSingle(TLeaf("A", "")), TSingle(TNilStruct),
     TSingle(TStruct("A", "", FALSE, "zz" :> TMap("*" :> TLeaf("B", "")))),
     TList(<<TLeaf("A", "")>>), TNilList, TMap("*" :> TLeaf("A", "")), TNilMap,
     TMap2("a" :> TMapStruct("b" :> TLeaf("A", ""))), TNilMap2}

\* the spec: nil, without fields, or with field A and possibly B and aB
ValidateSpecs ==
    {TNilStruct, TLeaf("R", ""), TStruct("R", "", FALSE, EmptyMap)}
    \cup {TStruct("R", "", FALSE, Chosen(("A" :> a) @@ ("B" :> b) @@ ("aB" :> u))) :
              a \in {<<>>} \cup {<<v>> : v \in SpecValues},
              b \in {<<>>, <<TSingle(TLeaf("B", ""))>>, <<TList(<<TLeaf("B", "")>>)>>},
              u \in {<<>>, <<TMap("*" :> TLeaf("A", ""))>>}}

FieldOrders == {<<"A", "B", "aB">>, <<"aB", "B", "A">>}

InitValidate ==
    \E t \in ValidateSpecs, ord \in FieldOrders :
    \E a \in {AllocStruct(<<>>, t)} :
        /\ heap = a.h
        /\ call = Call("Spec", "", 0, a.r, "", <<>>, [obj |-> NilObject, ord |-> ord])

\* err := ValidateStruct(obj, spec)
CallValidateStruct ==
    /\ call.op = "Spec"
    /\ \E obj \in Objects :
       \E err \in {ValidateStruct(heap, obj, call.res, call.aux.ord)} :
          /\ heap' = heap
          /\ call' = Call("ValidateStruct", "", call.res, 0,
                          IF err THEN "error" ELSE "", heap,
                          [obj |-> obj, ord |-> call.aux.ord])

NextValidate == CallValidateStruct

SpecValidate == InitValidate /\ [][NextValidate]_vars

\* the variant a Value has: none when it is nil, has no Kind, or holds a nil
\* pointer in its Kind
VariantOf(v) == IF v.pnil THEN "none" ELSE v.kind

\* the Go kinds that go with a variant, the field seen through one pointer
Compatible(field, v) ==
    LET kind == IF field[1] = "ptr" THEN field[2] ELSE field[1]
    IN  CASE VariantOf(v) \in {"map2", "map"} -> kind = "map"
          [] VariantOf(v) = "list" -> kind \in {"slice", "array", "map"}
          [] VariantOf(v) = "single" -> kind \in {"struct", "ptr", "interface"}
          [] OTHER -> TRUE

IsStructOrPointerToStruct(obj) ==
    ~obj.nil /\ obj.type \in {<<"struct">>, <<"ptr", "struct">>}

\* C18: ValidateStruct returns nil when spec is nil or has no fields, even
\* for a nil obj; otherwise it returns an error exactly when obj is nil, obj
\* is neither a struct nor a pointer to a struct, a field name of spec is
\* not an exported field of obj, or the kind of a field, seen through one
\* pointer, does not go with the variant of its Value.  Only the top-level
\* fields of spec count.
C18_ValidateStruct ==
    call.op = "ValidateStruct"
    => \A spec \in {TreeOfStruct(heap, call.arg)} :
       \A obj \in {call.aux.obj} :
          IF spec.nil \/ DOMAIN spec.f = {} THEN call.err = ""
          ELSE (call.err = "error") <=>
                  \/ obj.nil
                  \/ ~IsStructOrPointerToStruct(obj)
                  \/ \E name \in DOMAIN spec.f :
                        \/ name \notin DOMAIN obj.fields
                        \/ name \notin {"A", "B"}
                        \/ ~Compatible(obj.fields[name], spec.f[name])

\* ValidateStruct has accepted a pointer to a struct whose field A is a
\* pointer to a map, for a spec with a MapStruct on A
C18_Witness ==
    /\ call.op = "ValidateStruct"
    /\ call.err = ""
    /\ call.aux.obj.type = <<"ptr", "struct">>
    /\ call.aux.obj.fields["A"] = <<"ptr", "map">>
    /\ \A spec \in {TreeOfStruct(heap, call.arg)} :
          ~spec.nil /\ "A" \in DOMAIN spec.f /\ spec.f["A"].kind = "map" /\ ~spec.f["A"].pnil

\* ValidateStruct has refused a spec that names the unexported field
C18_WitnessUnexported ==
    /\ call.op = "ValidateStruct"
    /\ call.err = "error"
    /\ call.aux.obj.type = <<"struct">>
    /\ DOMAIN call.aux.obj.fields = {"A", "aB"}
    /\ call.aux.obj.fields["A"] = <<"map">>
    /\ \A spec \in {TreeOfStruct(heap, call.arg)} :
          DOMAIN spec.f = {"A", "aB"} /\ spec.f["A"] = TMap("*" :> TLeaf("A", ""))

\* ------------------------------------------------- the order of the rules
\* The node js without the keys below its first rule, at every node that
\* the decoding of js decodes.
RECURSIVE StripLower(_)
StripLowerAll(props) ==
    [k \in DOMAIN props |-> IF props[k] = <<>> THEN <<>> ELSE <<StripLower(props[k][1])>>]

StripLower(js) ==
    CASE FirstRule(js) = "x-map2" ->
            [js EXCEPT !.addl = <<>>, !.items = <<>>,
                       !.props = [k \in DOMAIN js.props |->
                                     IF js.props[k] = <<>> THEN <<>>
                                     ELSE <<[js.props[k][1] EXCEPT !.props = StripLowerAll(@)]>>]]
      [] FirstRule(js) = "properties" ->
            [js EXCEPT !.addl = <<>>, !.items = <<>>, !.props = StripLowerAll(@)]
      [] FirstRule(js) = "additionalProperties" ->
            [js EXCEPT !.items = <<>>, !.addl = <<StripLower(@[1])>>]
      [] FirstRule(js) = "items" -> [js EXCEPT !.items = <<StripLower(@[1])>>]
      [] OTHER -> js

\* the variant that a rule gives
VariantOfRule(rule) ==
    CASE rule = "x-map2" -> "map2"
      [] rule = "properties" -> "single"
      [] rule = "additionalProperties" -> "map"
      [] rule = "items" -> "list"
      [] OTHER -> "single"

\* C19: a schema node is decoded by the first rule that matches, in the
\* order x-map2, properties, additionalProperties, items, leaf: the outcome
\* is the outcome for the node without the keys of the rules below that
\* one, and a value that results is of the variant of that rule.
C19_FirstRuleWins ==
    call.op = "convertSchemaToValue"
    => \A js \in {jsonUnmarshal(call.aux)} :
       \A alone \in {convertSchemaToValue(<<StripLower(js)>>)} :
          /\ alone = convertSchemaToValue(<<js>>)
          /\ IF call.err # "" THEN call.err \in alone.fail
             ELSE /\ alone.fail = {}
                  /\ TreeOfValue(heap, call.res) = alone.v
                  /\ call.res # 0 => heap[call.res].kind = VariantOfRule(FirstRule(js))

\* a node with properties, additionalProperties and items has been decoded
\* to a SingleStruct
C19_Witness ==
    /\ call.op = "convertSchemaToValue"
    /\ call.err = ""
    /\ call.aux.has = {"className", "serviceName", "properties", "items",
                       "additionalProperties"}
    /\ call.res # 0
    /\ heap[call.res].kind = "single"

\* a node with additionalProperties and items has been decoded to a
\* MapStruct
C19_WitnessMap ==
    /\ call.op = "convertSchemaToValue"
    /\ call.err = ""
    /\ call.aux.has = {"className", "serviceName", "items", "additionalProperties"}
    /\ call.res # 0
    /\ heap[call.res].kind = "map"

\* ----------------------------------------------------------- x-map2 nodes
\* the decoding of the inner node under (o, k) of the x-map2 node js
InnerOf(js, o, k) == convertSchemaToValue(js.props[o][1].props[k])

\* an outer key of js whose node is null or has no properties
RegionWithoutProperties(js) ==
    \E o \in DOMAIN js.props : js.props[o] = <<>> \/ js.props[o][1].pnil

\* the (outer, inner) keys of js whose inner node decodes to a value
Remaining(js) ==
    {e \in UNION {{<<o, k>> : k \in DOMAIN js.props[o][1].props} : o \in DOMAIN js.props} :
        InnerOf(js, e[1], e[2]).v.kind # "nil"}

\* the decoding of the x-map2 node of this call is as C20 says; failed is
\* what a call that fails may end in
X2MapDecodedAsStated(failed) ==
    (call.op = "convertSchemaToValue" /\ call.aux.valid)
    => \A js \in {jsonUnmarshal(call.aux)} :
       FirstRule(js) = "x-map2" =>
          IF js.pnil \/ RegionWithoutProperties(js) THEN call.err \in failed /\ call.res = 0
          ELSE IF \E o \in DOMAIN js.props : \E k \in DOMAIN js.props[o][1].props :
                     InnerOf(js, o, k).fail # {}
               THEN call.err \in failed /\ call.res = 0
          ELSE /\ call.err = ""
               /\ \A left \in {Remaining(js)} :
                     IF left = {} THEN call.res = 0
                     ELSE \A w \in {TreeOfValue(heap, call.res)} :
                          /\ w.kind = "map2" /\ ~w.pnil /\ ~w.cnil
                          /\ DOMAIN w.m = {e[1] : e \in left}
                          /\ \A o \in DOMAIN w.m :
                                /\ DOMAIN w.m[o].m = {e[2] : e \in {x \in left : x[1] = o}}
                                /\ \A k \in DOMAIN w.m[o].m :
                                      w.m[o].m[k] = extractStructFromValue(InnerOf(js, o, k).v)

\* C20: decoding an x-map2 node fails with an error if the node has no
\* properties or if the node of an outer key has no nested properties;
\* otherwise every inner entry that decodes to absent is dropped, an outer
\* key whose inner map ends up empty is omitted, the result holds exactly
\* the remaining (outer, inner) entries, and if no outer key remains the
\* node decodes to absent.
C20_XMap2Decoding == X2MapDecodedAsStated({"error"})

\* ------------------------------------------------- the name of a node
\* C21: a node with properties decodes to a SingleStruct whose ClassName is
\* the declared name of the node unless that name is the generic "object",
\* which gives the empty ClassName, and whose ServiceName is the serviceName
\* of the node.
C21_ObjectSentinel ==
    (call.op = "convertSchemaToValue" /\ call.err = "")
    => \A js \in {jsonUnmarshal(call.aux)} :
       FirstRule(js) = "properties" =>
          \A w \in {TreeOfValue(heap, call.res)} :
             /\ w.kind = "single"
             /\ w.s.cn = (IF js.cn = "object" THEN "" ELSE js.cn)
             /\ w.s.sn = js.sn

\* ------------------------------------------------ the name of the receiver
\* C22 as stated: after a successful UnmarshalJSON the ClassName of the
\* receiver is the name the root node of the document declares, and empty
\* when it declares none, for every shape of the root.
C22_ReceiverNameIsDeclared ==
    (call.op = "UnmarshalJSON" /\ call.err = "")
    => heap[call.arg].cn = jsonUnmarshal(call.aux).cn

\* C22, amended: after a successful UnmarshalJSON the ClassName of the
\* receiver is the name the root node declares when it declares one; when it
\* declares none, the ClassName is empty for a root that decodes to a
\* SingleStruct or to absent, and the reserved wrapper name for a root that
\* decodes to a ListStruct, MapStruct or Map2Struct.
C22_ReceiverNameOrWrapper ==
    (call.op = "UnmarshalJSON" /\ call.err = "")
    => \A js \in {jsonUnmarshal(call.aux)} :
       \A val \in {convertSchemaToValue(<<js>>)} :
          /\ val.fail = {}
          /\ heap[call.arg].cn =
                (IF js.cn # "" THEN js.cn
                 ELSE IF val.v.kind \in {"list", "map", "map2"} THEN wrapperClassName
                 ELSE "")

\* UnmarshalJSON of a document whose root is an items node without a
\* className has left the wrapper name in the receiver
C22_Witness ==
    /\ call.op = "UnmarshalJSON"
    /\ call.err = ""
    /\ call.aux.has = {"items"}
    /\ heap[call.arg].cn = wrapperClassName

\* -------------------------------------------- encoding a decoded Struct
\* data, err := s.MarshalJSON() on the Struct that UnmarshalJSON filled or
\* that JSMServiceStruct or JSMStruct returned; the caller remembers the call
\* that decoded s
CallMarshalDecoded ==
    /\ call.op \in {"UnmarshalJSON", "JSMServiceStruct", "JSMStruct"}
    /\ call.err = ""
    /\ \E ord \in KeyOrders :
       \E m \in {MarshalJSON(TreeOfStruct(heap, call.res), ord)} :
          /\ heap' = heap
          /\ call' = Call("MarshalJSON", "", call.res, m.data, m.fail, heap, call)

NextCodec ==
    \/ CallJSMServiceStruct
    \/ CallJSMStruct
    \/ CallUnmarshalJSON
    \/ CallMarshalDecoded

\* A caller that holds a document decodes it and encodes the Struct it got.
SpecCodec == InitJSM /\ [][NextCodec]_vars

\* no node of the text has a reserved name
RECURSIVE NoSentinel(_)
NoSentinelAll(nodes) ==
    \A i \in DOMAIN nodes : NoSentinel(nodes[i])

NoSentinel(t) ==
    /\ "className" \in t.has => t.cn # wrapperClassName
    /\ "serviceName" \in t.has => t.sn # wrapperServiceName
    /\ "properties" \in t.has =>
          /\ wrapperFieldName \notin DOMAIN t.props
          /\ \A k \in DOMAIN t.props : NoSentinelAll(t.props[k])
    /\ "items" \in t.has => NoSentinelAll(t.items)
    /\ "additionalProperties" \in t.has => NoSentinelAll(t.addl)

\* C23: for every document that UnmarshalJSON or JSMServiceStruct decodes
\* without error, MarshalJSON of the decoded Struct succeeds and emits no
\* node with the reserved wrapper className, no reserved wrapper serviceName
\* and no property with the reserved wrapper field name.
C23_NoSentinelEmitted ==
    (/\ call.op = "MarshalJSON"
     /\ call.aux.op \in {"UnmarshalJSON", "JSMServiceStruct"})
    => call.err = "" /\ NoSentinel(call.res)

\* ------------------------------ SpecValidator: the validator, call by call
\* The leaf-only validator on a graph the caller built by hand, one call of
\* validateServiceEndStructWithSeen or validateServiceEndValueWithSeen at a
\* time.  The calls still to make are kept as a stack: a callee does nothing
\* after its loop, so the calls of a loop body are made in order and an error
\* ends them all.
MaxVisits == 2

GraphTrees ==
    {TStruct("A", sn, FALSE, "a" :> v) : sn \in ServiceNames, v \in GenValue(0)}
    \cup {TStruct("B", "", FALSE, ("a" :> TSingle(s)) @@ ("b" :> v)) :
              s \in {TLeaf("A", "s1"), TStruct("A", "s1", FALSE, "a" :> TNilValue),
                     TStruct("A", "", FALSE, "a" :> TList(<<TLeaf("B", "")>>))},
              v \in {TSingle(TLeaf("B", "")), TList(<<TLeaf("A", ""), TLeaf("B", "")>>),
                     TMap("a" :> TLeaf("B", "")),
                     TMap2("a" :> TMapStruct("b" :> TLeaf("B", "")))}}

\* the pointers to a Struct that an object holds, and the object with one of
\* them set to Struct b
StructSlots(h, a) ==
    LET n == h[a]
    IN CASE n.t = "Value" /\ n.kind = "single" -> {<<a, "ref">>}
         [] n.t = "Slice" -> {<<a, i>> : i \in DOMAIN n.l}
         [] n.t = "MapFields" -> {<<a, k>> : k \in DOMAIN n.m}
         [] OTHER -> {}

Linked(h, slot, b) ==
    LET a == slot[1]
    IN CASE h[a].t = "Value" -> [h EXCEPT ![a].ref = b]
         [] h[a].t = "Slice" -> [h EXCEPT ![a].l[slot[2]] = b]
         [] OTHER -> [h EXCEPT ![a].m[slot[2]] = b]

Structs(h) == {a \in DOMAIN h : h[a].t = "Struct"}

InitValidator ==
    \E t \in GraphTrees :
        LET a == AllocStruct(<<>>, t)
        IN  /\ heap = a.h
            /\ call = Call("Graph", "", 0, a.r, "", <<>>, 0)

\* the caller points one field, element or entry at a Struct of the graph:
\* the Struct becomes shared, or reachable from itself
Link ==
    /\ call.op = "Graph"
    /\ call.aux = 0
    /\ \E a \in DOMAIN heap : \E slot \in StructSlots(heap, a) : \E b \in Structs(heap) :
          /\ Linked(heap, slot, b) # heap
          /\ heap' = Linked(heap, slot, b)
          /\ call' = Call("Graph", "", 0, call.res, "", heap, 1)

\* the calls to make, the seen map, how often each Struct was examined
\* (past the seen test), the verdict so far
Walk(stack, seen, visits, ord, err) ==
    [stack |-> stack, seen |-> seen, visits |-> visits, ord |-> ord, err |-> err]

Calls(t, as) == [i \in DOMAIN as |-> [t |-> t, a |-> as[i]]]

Visited(w, s) ==
    [a \in DOMAIN w.visits \cup {s} |->
        IF a # s THEN w.visits[a]
        ELSE IF a \notin DOMAIN w.visits THEN 1
        ELSE IF w.visits[a] >= MaxVisits THEN MaxVisits ELSE w.visits[a] + 1]

\* mutant: the seen map is not consulted
EnterStructUnseen(h, s, w) ==
    IF s = 0 THEN w
    ELSE IF h[s].sn # "" /\ LenFields(h, s) > 0
         THEN [w EXCEPT !.seen = @ \cup {s}, !.visits = Visited(w, s), !.err = TRUE]
    ELSE [w EXCEPT !.seen = @ \cup {s}, !.visits = Visited(w, s),
                   !.stack = Calls("Value", Entries(h, h[s].ref, w.ord)) \o @]

\* validateServiceEndStructWithSeen(s, seen, path) up to its loop
EnterStruct(h, s, w) ==
    IF s = 0 THEN w
    ELSE IF s \in w.seen THEN w
    ELSE IF h[s].sn # "" /\ LenFields(h, s) > 0
         THEN [w EXCEPT !.seen = @ \cup {s}, !.visits = Visited(w, s), !.err = TRUE]
    ELSE [w EXCEPT !.seen = @ \cup {s}, !.visits = Visited(w, s),
                   !.stack = Calls("Value", Entries(h, h[s].ref, w.ord)) \o @]

\* validateServiceEndValueWithSeen(v, seen, path) up to its loops
EnterValue(h, v, w) ==
    IF v = 0 THEN w
    ELSE CASE h[v].kind = "single" ->
                [w EXCEPT !.stack = Calls("Struct", <<h[v].ref>>) \o @]
           [] h[v].kind = "list" /\ h[v].ref # 0 ->
                [w EXCEPT !.stack = Calls("Struct", Elements(h, h[h[v].ref].ref)) \o @]
           [] h[v].kind = "map" /\ h[v].ref # 0 ->
                [w EXCEPT !.stack = Calls("Struct", Entries(h, h[h[v].ref].ref, w.ord)) \o @]
           [] h[v].kind = "map2" /\ h[v].ref # 0 ->
                [w EXCEPT !.stack =
                    Calls("Struct",
                          Map2Structs(h, Entries(h, h[h[v].ref].ref, w.ord), w.ord)) \o @]
           [] OTHER -> w

\* err := validateServiceEndStruct(s) begins
CallValidator ==
    /\ call.op = "Graph"
    /\ \E ord \in KeyOrders :
          /\ heap' = heap
          /\ call' = Call("validating", "", call.res, 0, "", heap,
                          Walk(Calls("Struct", <<call.res>>), {}, EmptyMap, ord, FALSE))

\* the next call of the recursion is made
ValidatorStep ==
    /\ call.op = "validating"
    /\ ~call.aux.err
    /\ call.aux.stack # <<>>
    /\ \E c \in {Head(call.aux.stack)} :
       \E w \in {[call.aux EXCEPT !.stack = Tail(@)]} :
          /\ heap' = heap
          /\ call' = [call EXCEPT !.aux = IF c.t = "Struct" THEN EnterStruct(heap, c.a, w)
                                          ELSE EnterValue(heap, c.a, w)]

\* an error is returned through every caller; or no call is left
ValidatorReturn ==
    /\ call.op = "validating"
    /\ call.aux.err \/ call.aux.stack = <<>>
    /\ heap' = heap
    /\ call' = [call EXCEPT !.op = "validateServiceEndStruct",
                            !.err = IF call.aux.err THEN "error" ELSE ""]

NextValidator == Link \/ CallValidator \/ ValidatorStep \/ ValidatorReturn

\* a call that began goes on until it returns
SpecValidator ==
    /\ InitValidator
    /\ [][NextValidator]_vars
    /\ WF_vars(ValidatorStep)
    /\ WF_vars(ValidatorReturn)

\* the root is reachable from itself
Cyclic(h, s) == s \in UNION {Reach(h, c) : c \in Children(h, s)}

ExaminedOnce ==
    call.op \in {"validating", "validateServiceEndStruct"}
    => /\ \A s \in DOMAIN call.aux.visits : call.aux.visits[s] <= 1
       /\ call.op = "validateServiceEndStruct" =>
             (call.err = "error") = validateServiceEndStruct(heap, call.arg, call.aux.ord)

\* C24: the leaf-service validator returns on every finite Struct graph, one
\* in which a Struct is reachable from itself included, and examines each
\* distinct Struct at most once; what it returns is the verdict of the
\* recursive definition.
C24_ValidatorTerminates ==
    /\ []ExaminedOnce
    /\ (call.op = "validating") ~> (call.op = "validateServiceEndStruct")

C24_Witness ==
    /\ call.op = "validateServiceEndStruct"
    /\ Cyclic(heap, call.arg)
    /\ call.err = ""
    /\ Cardinality(DOMAIN call.aux.visits) >= 2

C24_WitnessError ==
    /\ call.op = "validateServiceEndStruct"
    /\ Cyclic(heap, call.arg)
    /\ call.err = "error"
    /\ Cardinality(DOMAIN call.aux.visits) >= 2

\* every order in which a run may range over the keys of the graphs' maps
VisitOrders ==
    {q \in [1..3 -> {"a", "b", "*"}] : \A i, j \in 1..3 : q[i] = q[j] => i = j}

\* C25: the verdict of the leaf-service validator is the same for every order
\* in which the entries of Fields, MapFields and Map2Fields are visited.
C25_VerdictOrderIndependent ==
    call.op = "validateServiceEndStruct"
    => \A ord \in VisitOrders :
          validateServiceEndStruct(heap, call.arg, ord) = (call.err = "error")

\* a Struct with two fields, the offending Struct under one of them
C25_Witness ==
    /\ call.op = "validateServiceEndStruct"
    /\ call.err = "error"
    /\ LenFields(heap, call.arg) = 2
    /\ heap[call.arg].sn = ""

\* ------------------------------------------------- the []string shorthand
\* the literal is a []string or a collection of them
IsEndLiteral(v) ==
    v.ty \in {"[]string", "[][]string", "map[string][]string", "map[[2]string][]string"}

\* the []string entries of the literal
EndEntries(v) ==
    CASE v.ty = "[]string" -> {v.strings}
      [] v.ty = "[][]string" -> {v.stringss[i] : i \in DOMAIN v.stringss}
      [] v.ty = "map[string][]string" -> {v.stringsMap[k] : k \in DOMAIN v.stringsMap}
      [] OTHER -> {v.strings2Map[k] : k \in DOMAIN v.strings2Map}

\* the leaf that one entry stands for
EndLeaf(e) == TLeaf(e[1], IF Len(e) = 1 THEN "" ELSE e[2])

\* the value that a literal without empty entries stands for
EndValue(v) ==
    CASE v.ty = "[]string" -> TSingle(EndLeaf(v.strings))
      [] v.ty = "[][]string" -> TList([i \in DOMAIN v.stringss |-> EndLeaf(v.stringss[i])])
      [] v.ty = "map[string][]string" ->
            TMap([k \in DOMAIN v.stringsMap |-> EndLeaf(v.stringsMap[k])])
      [] OTHER ->
            TMap2([o \in {k[1] : k \in DOMAIN v.strings2Map} |->
                     TMapStruct([i \in {k[2] : k \in {q \in DOMAIN v.strings2Map : q[1] = o}} |->
                                    EndLeaf(v.strings2Map[<<o, i>>])])])

C26_WitnessEntries ==
    /\ call.op = "NewServiceValue"
    /\ call.aux.v.ty = "map[[2]string][]string"
    /\ \E k \in DOMAIN call.aux.v.strings2Map : Len(call.aux.v.strings2Map[k]) = 3
    /\ call.err = ""

C26_WitnessEmptyEntry ==
    /\ call.op = "NewServiceValue"
    /\ call.aux.v.ty = "[][]string"
    /\ Len(call.aux.v.stringss) = 2
    /\ call.err = "error"

\* ------------------------------------------- encoding what NewStruct built
\* C27: for every tree returned by NewStruct, MarshalJSON succeeds, and
\* UnmarshalJSON of the document it emitted succeeds.
C27_EncodedTreeDecodes ==
    [][/\ (call.op = "NewStruct" /\ call'.op = "MarshalJSON") => call'.err = ""
       /\ (/\ call.op = "MarshalJSON"
           /\ call.aux.op = "NewStruct"
           /\ call'.op = "UnmarshalJSON") => call'.err = ""]_vars

\* ------------------------------------------------- who holds what
\* the pointers to object a held by the objects of R, each with its holder
\* and the place it is held at
InEdges(h, R, a) ==
    {<<p, "ref">> : p \in {q \in R : h[q].ref = a}}
    \cup UNION {{<<p, k>> : k \in {x \in DOMAIN h[p].m : h[p].m[x] = a}} : p \in R}
    \cup UNION {{<<p, i>> : i \in {x \in DOMAIN h[p].l : h[p].l[x] = a}} : p \in R}

\* the pre-built objects that a literal names
RECURSIVE Pointers(_)
Pointers(v) ==
    CASE v.ty = "*Struct" -> {v.ptr} \ {0}
      [] v.ty = "[]*Struct" -> {v.slice} \ {0}
      [] v.ty = "map[string]*Struct" -> {v.mapFields} \ {0}
      [] v.ty = "map[string]*MapStruct" -> {v.map2Fields} \ {0}
      [] v.ty = "[2]any" -> Pointers(v.pair[1]) \cup Pointers(v.pair[2])
      [] v.ty = "map[string]any" -> UNION {Pointers(v.fields[k]) : k \in DOMAIN v.fields}
      [] v.ty = "[][2]any" -> UNION {Pointers(v.tuples[i]) : i \in DOMAIN v.tuples}
      [] v.ty = "map[string][2]any" ->
            UNION {Pointers(v.tupleMap[k]) : k \in DOMAIN v.tupleMap}
      [] v.ty = "map[[2]string][2]any" ->
            UNION {Pointers(v.tuple2Map[k]) : k \in DOMAIN v.tuple2Map}
      [] OTHER -> {}

IsBuilder(op) == op \in {"NewStruct", "NewValue", "NewServiceStruct", "NewServiceValue"}

\* C28 as stated: in every tree returned by a builder each object has exactly
\* one holder (the root none), and no object of it existed before the call.
C28_EveryNodeHasOneParent ==
    (IsBuilder(call.op) /\ call.err = "")
    => \A R \in {Reach(heap, call.res)} :
          /\ \A a \in R :
                Cardinality(InEdges(heap, R, a)) = (IF a = call.res THEN 0 ELSE 1)
          /\ \A a \in R : a > Len(call.pre)

\* C28, amended: every object the builder allocated has exactly one holder
\* in the result (the root none); the objects of the result that existed
\* before the call are reachable from the pre-built objects the literal
\* names, and the call has not changed them.
C28_BuiltNodesHaveOneParent ==
    (IsBuilder(call.op) /\ call.err = "")
    => \A R \in {Reach(heap, call.res)} :
          /\ \A a \in R :
                a > Len(call.pre) =>
                   Cardinality(InEdges(heap, R, a)) = (IF a = call.res THEN 0 ELSE 1)
          /\ {a \in R : a <= Len(call.pre)}
                \subseteq UNION {Reach(call.pre, p) : p \in Pointers(call.aux.v)}
          /\ SubSeq(heap, 1, Len(call.pre)) = call.pre

\* one pre-built Struct given for two fields: it is in the result, held twice
C28_Witness ==
    /\ call.op = "NewStruct"
    /\ call.err = ""
    /\ \E a \in 1..Len(call.pre) :
          /\ a \in Reach(heap, call.res)
          /\ Cardinality(InEdges(heap, Reach(heap, call.res), a)) = 2

\* a result built from a literal that names no pre-built object
C28_WitnessLiteral ==
    /\ IsBuilder(call.op)
    /\ call.err = ""
    /\ Pointers(call.aux.v) = {}
    /\ Cardinality(Reach(heap, call.res)) >= 6

\* ------------------------------------------------- stripping and encoding
\* the document without its serviceName keys
RECURSIVE WithoutServiceNames(_)
WithoutServiceNamesAll(nodes) ==
    [i \in DOMAIN nodes |-> WithoutServiceNames(nodes[i])]

WithoutServiceNames(t) ==
    [t EXCEPT !.has = @ \ {"serviceName"},
              !.sn = "",
              !.props = [k \in DOMAIN @ |-> WithoutServiceNamesAll(@[k])],
              !.items = WithoutServiceNamesAll(@),
              !.addl = WithoutServiceNamesAll(@)]

\* C29: for every tree t returned by JSMServiceStruct, MarshalJSON of
\* DeriveStructWithoutServices(t) (the tree JSMStruct returns) is the
\* document MarshalJSON(t) with every serviceName key removed.
C29_StripCommutesWithEncoding ==
    (call.op = "MarshalJSON" /\ call.aux.op = "JSMStruct")
    => \A svc \in {JSMServiceStruct(call.aux.cn, call.aux.aux)} :
       \A ord \in KeyOrders :
       \A m \in {MarshalJSON(svc.s, ord)} :
          /\ m.fail = ""
          /\ call.err = ""
          /\ call.res = WithoutServiceNames(m.data)

\* --------------------------------------- decoded trees and the validator
\* no node of the document has both a serviceName and properties
RECURSIVE NoServiceOnProperties(_)
NoServiceOnPropertiesAll(nodes) ==
    \A i \in DOMAIN nodes : NoServiceOnProperties(nodes[i])

NoServiceOnProperties(t) ==
    /\ ~({"serviceName", "properties"} \subseteq t.has /\ t.sn # "")
    /\ \A k \in DOMAIN t.props : NoServiceOnPropertiesAll(t.props[k])
    /\ NoServiceOnPropertiesAll(t.items)
    /\ NoServiceOnPropertiesAll(t.addl)

\* C30: for every document in which no node carries both a serviceName and
\* properties, the tree returned by JSMServiceStruct has no Struct with both
\* a ServiceName and Fields, and NewServiceValue and NewServiceStruct accept
\* it.
C30_DecodedTreeIsLeafOnly ==
    (/\ call.op = "JSMServiceStruct"
     /\ call.err = ""
     /\ NoServiceOnProperties(call.aux))
    => /\ \A s \in Reach(heap, call.res) :
             heap[s].t = "Struct" => ~(heap[s].sn # "" /\ LenFields(heap, s) > 0)
       /\ \A ord \in KeyOrders :
             /\ NewServiceValue(heap, LPtr(call.res), ord).fail = ""
             /\ NewServiceStruct(heap, "R", LPtr(call.res), ord).fail = ""

====
